---- MODULE Spec2Model ----
(***************************************************************************)
(* Model of the string-resource merge of ResBeaver / asset-scaler:         *)
(* lib/xmlUtils.ts (parseStringsXml, generateMergePreviewWithDetails,      *)
(* mergeIntoExistingXml, executeMerge, ...) and the StringResourceProcessor *)
(* component that drives it.                                               *)
(*                                                                         *)
(* Text is a sequence of atoms.  An atom is a one-character string ("1",   *)
(* "&", " ", "\n", ...) or one piece of markup written out in full         *)
(* ("<resources>", "<string name=\"a\">", "</string>", "<!--", ...).  A     *)
(* file is one flat sequence; String.split('\n') and Array.join('\n') are  *)
(* the operators split and join below.                                     *)
(***************************************************************************)
EXTENDS Integers, Sequences, FiniteSets, TLC

\* ------------------------------------------------------------------------
\* Atoms
\* ------------------------------------------------------------------------
NL == "\n"
CR == "\r"
SP == " "
DECL == "<?xml version=\"1.0\" encoding=\"utf-8\"?>"
ROPEN == "<resources>"
RCLOSE == "</resources>"
REMPTY == "<resources/>"
SCLOSE == "</string>"
COPEN == "<!--"
CCLOSE == "-->"

\* the names of the string resources of the model
NumKeys == 3
KeyOrder == <<"a", "b", "c", "d", "e">>
Keys == {KeyOrder[i] : i \in 1..NumKeys}

\* <string name="k">
OpenDq(k) == "<string name=\"" \o k \o "\">"
\* <string name='k'>
OpenSq(k) == "<string name='" \o k \o "'>"
\* <string translatable="false" name="k">
OpenAttr(k) == "<string translatable=\"false\" name=\"" \o k \o "\">"

StringOpenTags == {OpenDq(k) : k \in Keys} \cup {OpenSq(k) : k \in Keys} \cup {OpenAttr(k) : k \in Keys}

Markup == StringOpenTags \cup {DECL, ROPEN, RCLOSE, REMPTY, SCLOSE, COPEN, CCLOSE}

\* the value of the name attribute of an opening <string ...> tag
TagName(t) == CHOOSE k \in Keys : t \in {OpenDq(k), OpenSq(k), OpenAttr(k)}

\* \s of the regular expressions, and what trimStart strips
Whitespace == {SP, CR, NL, "\t"}

\* ------------------------------------------------------------------------
\* Strings as sequences: split, join, includes, replace
\* ------------------------------------------------------------------------
Range(s) == {s[i] : i \in 1..Len(s)}

\* line.includes('<one atom>')
includes(line, atom) == \E i \in 1..Len(line) : line[i] = atom

\* value.includes('several characters')
includesSeq(s, pat) ==
    \E i \in 1..(Len(s) - Len(pat) + 1) : SubSeq(s, i, i + Len(pat) - 1) = pat

RECURSIVE splitFrom(_, _, _)
splitFrom(content, i, cur) ==
    IF i > Len(content) THEN <<cur>>
    ELSE IF content[i] = NL THEN <<cur>> \o splitFrom(content, i + 1, <<>>)
    ELSE splitFrom(content, i + 1, Append(cur, content[i]))

\* content.split('\n')
split(content) == splitFrom(content, 1, <<>>)

RECURSIVE join(_)
\* lines.join('\n')
join(lines) ==
    IF Len(lines) = 0 THEN <<>>
    ELSE IF Len(lines) = 1 THEN lines[1]
    ELSE lines[1] \o <<NL>> \o join(Tail(lines))

RECURSIVE trimStart(_)
\* line.trimStart()
trimStart(line) ==
    IF Len(line) > 0 /\ Head(line) \in Whitespace THEN trimStart(Tail(line)) ELSE line

RECURSIVE normalizeLineEndings(_)
\* content.replace(/\r\n/g, '\n').replace(/\r/g, '\n')
normalizeLineEndings(content) ==
    IF Len(content) = 0 THEN <<>>
    ELSE IF Head(content) = CR
         THEN IF Len(content) > 1 /\ content[2] = NL
              THEN normalizeLineEndings(Tail(content))
              ELSE <<NL>> \o normalizeLineEndings(Tail(content))
         ELSE <<Head(content)>> \o normalizeLineEndings(Tail(content))

\* ------------------------------------------------------------------------
\* Map<string, string>: a sequence of [key, value] in insertion order
\* ------------------------------------------------------------------------
EmptyMap == <<>>

mapHas(m, k) == \E i \in 1..Len(m) : m[i].key = k

mapGet(m, k) == m[CHOOSE i \in 1..Len(m) : m[i].key = k].value

mapKeys(m) == {m[i].key : i \in 1..Len(m)}

\* Map.set: a present key keeps its place and takes the new value
mapSet(m, k, v) ==
    IF mapHas(m, k)
    THEN [i \in 1..Len(m) |-> IF m[i].key = k THEN [key |-> k, value |-> v] ELSE m[i]]
    ELSE Append(m, [key |-> k, value |-> v])

\* Map<string, string> used only through has/get/set (rawLines): a function
EmptyLines == [k \in {} |-> <<>>]

linesSet(rl, k, line) == [x \in (DOMAIN rl) \cup {k} |-> IF x = k THEN line ELSE rl[x]]

\* ------------------------------------------------------------------------
\* DOMParser.parseFromString(content, 'application/xml') followed by
\* resources.querySelectorAll('string') / getAttribute('name') / textContent
\* ------------------------------------------------------------------------
EntAmp == <<"&", "a", "m", "p", ";">>
EntLt == <<"&", "l", "t", ";">>
EntGt == <<"&", "g", "t", ";">>

IsPrefix(p, s) == Len(p) <= Len(s) /\ SubSeq(s, 1, Len(p)) = p

entityChar(e) == IF e = EntAmp THEN "&" ELSE IF e = EntLt THEN "<" ELSE ">"

DomInit == [err |-> FALSE, phase |-> "prolog", inComment |-> FALSE,
            stack |-> <<>>, entries |-> <<>>, ent |-> <<>>]

\* character data c reaches the text of every open <string> element
domText(st, c) ==
    IF st.phase # "root" THEN [st EXCEPT !.err = TRUE]
    ELSE [st EXCEPT !.stack = [j \in 1..Len(st.stack) |->
                                  [st.stack[j] EXCEPT !.text = Append(@, c)]]]

\* an element's entry: elements are visited in document order, so the value
\* of a duplicated name is the one of the element opened last
domSetEntry(entries, frame) ==
    IF \E i \in 1..Len(entries) : entries[i].key = frame.key
    THEN [i \in 1..Len(entries) |->
            IF entries[i].key = frame.key /\ entries[i].open < frame.open
            THEN [key |-> frame.key, value |-> frame.text, open |-> frame.open]
            ELSE entries[i]]
    ELSE Append(entries, [key |-> frame.key, value |-> frame.text, open |-> frame.open])

domStep(st, x, i) ==
    IF st.inComment
    THEN IF x = CCLOSE THEN [st EXCEPT !.inComment = FALSE]
         ELSE IF x = COPEN THEN [st EXCEPT !.err = TRUE]
         ELSE st
    ELSE IF st.ent # <<>>
    THEN LET e == Append(st.ent, x)
         IN IF e \in {EntAmp, EntLt, EntGt}
            THEN domText([st EXCEPT !.ent = <<>>], entityChar(e))
            ELSE IF IsPrefix(e, EntAmp) \/ IsPrefix(e, EntLt) \/ IsPrefix(e, EntGt)
            THEN [st EXCEPT !.ent = e]
            ELSE [st EXCEPT !.err = TRUE]
    ELSE IF x = DECL THEN (IF i = 1 THEN st ELSE [st EXCEPT !.err = TRUE])
    ELSE IF x = COPEN THEN [st EXCEPT !.inComment = TRUE]
    ELSE IF x = ROPEN
    THEN IF st.phase = "prolog" THEN [st EXCEPT !.phase = "root"] ELSE [st EXCEPT !.err = TRUE]
    ELSE IF x = REMPTY
    THEN IF st.phase = "prolog" THEN [st EXCEPT !.phase = "epilog"] ELSE [st EXCEPT !.err = TRUE]
    ELSE IF x = RCLOSE
    THEN IF st.phase = "root" /\ st.stack = <<>>
         THEN [st EXCEPT !.phase = "epilog"] ELSE [st EXCEPT !.err = TRUE]
    ELSE IF x \in StringOpenTags
    THEN IF st.phase = "root"
         THEN [st EXCEPT !.stack = Append(@, [key |-> TagName(x), text |-> <<>>, open |-> i])]
         ELSE [st EXCEPT !.err = TRUE]
    ELSE IF x = SCLOSE
    THEN IF st.stack # <<>>
         THEN [st EXCEPT !.stack = SubSeq(@, 1, Len(@) - 1),
                         !.entries = domSetEntry(@, st.stack[Len(st.stack)])]
         ELSE [st EXCEPT !.err = TRUE]
    ELSE IF x = "&"
    THEN IF st.phase = "root" THEN [st EXCEPT !.ent = <<"&">>] ELSE [st EXCEPT !.err = TRUE]
    ELSE IF x = "<" THEN [st EXCEPT !.err = TRUE]
    ELSE IF x = CR THEN (IF st.phase = "root" THEN domText(st, NL) ELSE st)
    ELSE IF x \in Whitespace THEN (IF st.phase = "root" THEN domText(st, x) ELSE st)
    ELSE domText(st, x)

RECURSIVE domScan(_, _, _)
domScan(content, i, st) ==
    IF st.err \/ i > Len(content) THEN st
    ELSE IF content[i] = CR /\ i < Len(content) /\ content[i + 1] = NL /\ ~st.inComment /\ st.ent = <<>>
    THEN domScan(content, i + 1, st)    \* the parser reads \r\n as \n
    ELSE domScan(content, i + 1, domStep(st, content[i], i))

domParse(content) ==
    LET st == domScan(content, 1, DomInit)
        ok == ~st.err /\ st.phase = "epilog" /\ ~st.inComment /\ st.ent = <<>>
    IN [success |-> ok,
        entries |-> IF ok THEN [i \in 1..Len(st.entries) |->
                                  [key |-> st.entries[i].key, value |-> st.entries[i].value]]
                    ELSE <<>>]

\* line.match(/name=["']([^"']+)["']/): the first name attribute on the line
nameMatch(line) ==
    IF \E i \in 1..Len(line) : line[i] \in StringOpenTags
    THEN <<TagName(line[CHOOSE i \in 1..Len(line) :
                          /\ line[i] \in StringOpenTags
                          /\ \A j \in 1..(i - 1) : line[j] \notin StringOpenTags])>>
    ELSE <<>>

RECURSIVE scanRawLines(_, _, _)
scanRawLines(lines, i, rl) ==
    IF i > Len(lines) THEN rl
    ELSE LET line == lines[i]
         IN IF ~(\E j \in 1..Len(line) : line[j] \in StringOpenTags) THEN scanRawLines(lines, i + 1, rl)
            ELSE IF ~includes(line, SCLOSE) THEN scanRawLines(lines, i + 1, rl)
            ELSE IF nameMatch(line) = <<>> THEN scanRawLines(lines, i + 1, rl)
            ELSE scanRawLines(lines, i + 1, linesSet(rl, nameMatch(line)[1], trimStart(line)))

parseStringsXml(content) ==
    LET dom == domParse(content)
    IN IF ~dom.success
       THEN [success |-> FALSE, entries |-> EmptyMap, rawLines |-> EmptyLines]
       ELSE [success |-> TRUE, entries |-> dom.entries,
             rawLines |-> scanRawLines(split(content), 1, EmptyLines)]

\* ------------------------------------------------------------------------
\* Writing: escapeXmlValue, detectIndentation, generateStringsXmlContent,
\* mergeIntoExistingXml
\* ------------------------------------------------------------------------
RECURSIVE replaceChar(_, _, _)
\* value.replace(/c/g, by)
replaceChar(value, c, by) ==
    IF Len(value) = 0 THEN <<>>
    ELSE (IF Head(value) = c THEN by ELSE <<Head(value)>>) \o replaceChar(Tail(value), c, by)

escapeXmlValue(value) ==
    IF includesSeq(value, EntAmp) \/ includesSeq(value, EntLt) \/ includesSeq(value, EntGt)
    THEN value
    ELSE replaceChar(replaceChar(replaceChar(value, "&", EntAmp), "<", EntLt), ">", EntGt)

FourSpaces == <<SP, SP, SP, SP>>

\* the atom starts with the character '<'
StartsWithLt(x) == x \in (Markup \ {CCLOSE}) \cup {"<"}

RECURSIVE leadingSpace(_)
leadingSpace(line) ==
    IF Len(line) > 0 /\ Head(line) \in Whitespace
    THEN <<Head(line)>> \o leadingSpace(Tail(line)) ELSE <<>>

\* line.match(/^(\s+)</): the captured group, or <<>> without a match
indentMatch(line) ==
    LET ws == leadingSpace(line)
    IN IF Len(ws) > 0 /\ Len(line) > Len(ws) /\ StartsWithLt(line[Len(ws) + 1]) THEN ws ELSE <<>>

detectIndentation(content) ==
    LET lines == split(content)
        closing == {i \in 1..Len(lines) : includes(lines[i], RCLOSE)}
        \* closingIndex, counted from 1; 0 when there is none
        closingIndex == IF closing = {} THEN 0 ELSE CHOOSE i \in closing : \A j \in closing : j <= i
        cands == {i \in 1..(closingIndex - 1) : indentMatch(lines[i]) # <<>>}
    IN IF closingIndex > 1 /\ cands # {}
       THEN indentMatch(lines[CHOOSE i \in cands : \A j \in cands : j <= i])
       ELSE FourSpaces

\* `${indent}<!-- ${comment} -->`
commentLine(indent, comment) == indent \o <<COPEN, SP>> \o comment \o <<SP, CCLOSE>>

\* `<string name="${name}">${text}</string>`
stringElement(name, text) == <<OpenDq(name)>> \o text \o <<SCLOSE>>

\* one line per entry: the raw line when there is one, else a fresh element
entryLines(entries, indent, rawLines) ==
    [i \in 1..Len(entries) |->
        IF entries[i].key \in DOMAIN rawLines
        THEN indent \o rawLines[entries[i].key]
        ELSE indent \o stringElement(entries[i].key, escapeXmlValue(entries[i].value))]

generateStringsXmlContent(entries, indent, comment, rawLines) ==
    join(<<<<DECL>>, <<ROPEN>>>>
         \o (IF comment # <<>> /\ Len(entries) > 0 THEN <<commentLine(indent, comment)>> ELSE <<>>)
         \o entryLines(entries, indent, rawLines)
         \o <<<<RCLOSE>>, <<>>>>)

\* line.match(/<string\s+name="([^"]+)"/): name must be the first attribute
\* and in double quotes; the key of the first such tag on the line
stringMatch(line) ==
    LET hits == {i \in 1..Len(line) : \E k \in Keys : line[i] = OpenDq(k)}
    IN IF hits = {} THEN <<>>
       ELSE <<TagName(line[CHOOSE i \in hits : \A j \in hits : i <= j])>>

\* index of the first line from i on that includes </string>, Len+1 if none
RECURSIVE skipToClose(_, _)
skipToClose(lines, i) ==
    IF i > Len(lines) \/ includes(lines[i], SCLOSE) THEN i ELSE skipToClose(lines, i + 1)

RECURSIVE removeLoop(_, _, _, _)
\* the while loop of mergeIntoExistingXml; acc = [resultLines, closingTagIndex]
removeLoop(lines, i, namesToRemove, acc) ==
    IF i > Len(lines) THEN acc
    ELSE LET line == lines[i]
         IN IF includes(line, RCLOSE)
            THEN removeLoop(lines, i + 1, namesToRemove,
                            [resultLines |-> Append(acc.resultLines, line),
                             closingTagIndex |-> Len(acc.resultLines)])
            ELSE IF stringMatch(line) # <<>> /\ stringMatch(line)[1] \in namesToRemove
            THEN IF includes(line, SCLOSE)
                 THEN removeLoop(lines, i + 1, namesToRemove, acc)
                 ELSE removeLoop(lines, skipToClose(lines, i) + 1, namesToRemove, acc)
            ELSE removeLoop(lines, i + 1, namesToRemove,
                            [acc EXCEPT !.resultLines = Append(@, line)])

\* a.splice(index, 0, ...items), index counted from 0
splice(a, index, items) == SubSeq(a, 1, index) \o items \o SubSeq(a, index + 1, Len(a))

mergeIntoExistingXml(originalContent, sourceEntries, comment, rawLines) ==
    LET indent == detectIndentation(originalContent)
        lines == split(originalContent)
        scanned == removeLoop(lines, 1, mapKeys(sourceEntries),
                              [resultLines |-> <<>>, closingTagIndex |-> -1])
        closed == IF scanned.closingTagIndex = -1
                  THEN [resultLines |-> Append(scanned.resultLines, <<RCLOSE>>),
                        closingTagIndex |-> Len(scanned.resultLines)]
                  ELSE scanned
        newEntryLines ==
            (IF comment # <<>> /\ Len(sourceEntries) > 0 THEN <<commentLine(indent, comment)>> ELSE <<>>)
            \o entryLines(sourceEntries, indent, rawLines)
    IN join(splice(closed.resultLines, closed.closingTagIndex, newEntryLines))

\* ------------------------------------------------------------------------
\* Diff engine: generateMergePreviewWithDetails
\* ------------------------------------------------------------------------
\* new Map(resources.map(r => [r.folderName, r])).get(folderName):
\* the last resource with that folder name, as <<r>>, or <<>>
getByFolder(resources, folderName) ==
    LET hits == {i \in 1..Len(resources) : resources[i].folderName = folderName}
    IN IF hits = {} THEN <<>> ELSE <<resources[CHOOSE i \in hits : \A j \in hits : j <= i]>>

\* new Map(resources.map(r => [r.locale, r])).get(locale)
getByLocale(resources, locale) ==
    LET hits == {i \in 1..Len(resources) : resources[i].locale = locale}
    IN IF hits = {} THEN <<>> ELSE <<resources[CHOOSE i \in hits : \A j \in hits : j <= i]>>

\* the classification with the test of replaceExisting left out
classifyAlways(entry, targetEntries, replaceExisting) ==
    IF mapHas(targetEntries, entry.key)
    THEN LET oldValue == mapGet(targetEntries, entry.key)
         IN IF oldValue # entry.value
            THEN [key |-> entry.key, type |-> "update", newValue |-> entry.value, oldValue |-> oldValue]
            ELSE [key |-> entry.key, type |-> "unchanged", newValue |-> oldValue]
    ELSE [key |-> entry.key, type |-> "add", newValue |-> entry.value]

\* the classification of one source entry against the target's entries
classify(entry, targetEntries, replaceExisting) ==
    IF mapHas(targetEntries, entry.key)
    THEN LET oldValue == mapGet(targetEntries, entry.key)
         IN IF oldValue # entry.value /\ replaceExisting
            THEN [key |-> entry.key, type |-> "update", newValue |-> entry.value, oldValue |-> oldValue]
            ELSE [key |-> entry.key, type |-> "unchanged", newValue |-> oldValue]
    ELSE [key |-> entry.key, type |-> "add", newValue |-> entry.value]

\* source.entries.forEach(...) filling addedItems / updatedItems / unchangedItems
classifyAll(sourceEntries, targetEntries, replaceExisting) ==
    [i \in 1..Len(sourceEntries) |-> classify(sourceEntries[i], targetEntries, replaceExisting)]

IsAdd(item) == item.type = "add"
IsUpdate(item) == item.type = "update"
IsUnchanged(item) == item.type = "unchanged"

\* target.entries.forEach: the target keys the source does not have
remainingTargetItems(sourceEntries, targetEntries) ==
    LET rest == SelectSeq(targetEntries, LAMBDA e : ~mapHas(sourceEntries, e.key))
    IN [i \in 1..Len(rest) |-> [key |-> rest[i].key, type |-> "unchanged", newValue |-> rest[i].value]]

\* line.match(/<string\s+name="([^"]+)"[^>]*>/)
stringRegexMatch(line) ==
    LET hits == {i \in 1..Len(line) : \E k \in Keys : line[i] = OpenDq(k)}
    IN IF hits = {} THEN <<>>
       ELSE <<TagName(line[CHOOSE i \in hits : \A j \in hits : i <= j])>>

\* lines.forEach((line, index) => diffLines.push(...))
targetDiffLines(lines, keysToReplace) ==
    [i \in 1..Len(lines) |->
        LET match == stringRegexMatch(lines[i])
        IN IF match # <<>>
           THEN [lineNumber |-> i, content |-> lines[i],
                 type |-> IF match[1] \in keysToReplace THEN "update-old" ELSE "unchanged",
                 stringKey |-> match]
           ELSE [lineNumber |-> i, content |-> lines[i], type |-> "unchanged", stringKey |-> <<>>]]

\* source.rawLines?.get(key) || `<string name="${key}">${value}</string>`
previewLineContent(rawLines, key, value) ==
    IF key \in DOMAIN rawLines THEN rawLines[key] ELSE stringElement(key, value)

Reverse(s) == [i \in 1..Len(s) |-> s[Len(s) + 1 - i]]

\* allNewEntries.forEach(entry => diffLines.splice(insertIndex, 0, {...})):
\* every entry goes in at the same index, so the block ends up in reverse
insertNewEntries(diffLines, allNewEntries, updatedItems, rawLines) ==
    LET closing == {i \in 1..Len(diffLines) : includes(diffLines[i].content, RCLOSE)}
        insertIndex == IF closing = {} THEN Len(diffLines)
                       ELSE (CHOOSE i \in closing : \A j \in closing : i <= j) - 1
        block == [i \in 1..Len(allNewEntries) |->
                    [lineNumber |-> 0,
                     content |-> FourSpaces \o previewLineContent(rawLines, allNewEntries[i].key, allNewEntries[i].newValue),
                     type |-> IF \E u \in 1..Len(updatedItems) : updatedItems[u].key = allNewEntries[i].key
                              THEN "update-new" ELSE "add",
                     stringKey |-> <<allNewEntries[i].key>>]]
    IN IF Len(allNewEntries) > 0 THEN splice(diffLines, insertIndex, Reverse(block)) ELSE diffLines

\* `    <string name="${item.key}">${value}</string>` of the fallback diff
simpleDiffLine(n, key, value, type) ==
    [lineNumber |-> n, content |-> FourSpaces \o stringElement(key, value), type |-> type, stringKey |-> <<key>>]

previewOf(source, targetResources, replaceExisting) ==
    LET t == getByFolder(targetResources, source.folderName)
    IN IF t # <<>> /\ t[1].rawContent # <<>>
       THEN LET target == t[1]
                items == classifyAll(source.entries, target.entries, replaceExisting)
                addedItems == SelectSeq(items, IsAdd)
                updatedItems == SelectSeq(items, IsUpdate)
                unchangedItems == SelectSeq(items, IsUnchanged)
                                  \o remainingTargetItems(source.entries, target.entries)
                keysToReplace == {updatedItems[i].key : i \in 1..Len(updatedItems)}
            IN [locale |-> source.locale, folderName |-> source.folderName,
                sourceCount |-> Len(source.entries), targetCount |-> Len(target.entries),
                addCount |-> Len(addedItems), overwriteCount |-> Len(updatedItems),
                isNewFile |-> FALSE,
                addedItems |-> addedItems, updatedItems |-> updatedItems,
                unchangedItems |-> unchangedItems,
                diffLines |-> insertNewEntries(targetDiffLines(split(target.rawContent), keysToReplace),
                                               updatedItems \o addedItems, updatedItems, source.rawLines)]
       ELSE IF t # <<>>
       THEN LET target == t[1]
                items == classifyAll(source.entries, target.entries, replaceExisting)
                addedItems == SelectSeq(items, IsAdd)
                updatedItems == SelectSeq(items, IsUpdate)
                unchangedItems == SelectSeq(items, IsUnchanged)
            IN [locale |-> source.locale, folderName |-> source.folderName,
                sourceCount |-> Len(source.entries), targetCount |-> Len(target.entries),
                addCount |-> Len(addedItems), overwriteCount |-> Len(updatedItems),
                isNewFile |-> FALSE,
                addedItems |-> addedItems, updatedItems |-> updatedItems,
                unchangedItems |-> unchangedItems,
                diffLines |->
                    [i \in 1..Len(unchangedItems) |->
                        simpleDiffLine(i, unchangedItems[i].key, unchangedItems[i].newValue, "unchanged")]
                    \o [i \in 1..(2 * Len(updatedItems)) |->
                          IF i % 2 = 1
                          THEN simpleDiffLine(0, updatedItems[(i + 1) \div 2].key,
                                              updatedItems[(i + 1) \div 2].oldValue, "update-old")
                          ELSE simpleDiffLine(0, updatedItems[i \div 2].key,
                                              updatedItems[i \div 2].newValue, "update-new")]
                    \o [i \in 1..Len(addedItems) |->
                        simpleDiffLine(0, addedItems[i].key, addedItems[i].newValue, "add")]]
       ELSE LET addedItems == [i \in 1..Len(source.entries) |->
                                  [key |-> source.entries[i].key, type |-> "add",
                                   newValue |-> source.entries[i].value]]
            IN [locale |-> source.locale, folderName |-> source.folderName,
                sourceCount |-> Len(source.entries), targetCount |-> 0,
                addCount |-> Len(addedItems), overwriteCount |-> 0,
                isNewFile |-> TRUE,
                addedItems |-> addedItems, updatedItems |-> <<>>, unchangedItems |-> <<>>,
                diffLines |->
                    <<[lineNumber |-> 1, content |-> <<DECL>>, type |-> "add", stringKey |-> <<>>],
                      [lineNumber |-> 2, content |-> <<ROPEN>>, type |-> "add", stringKey |-> <<>>]>>
                    \o [i \in 1..Len(source.entries) |->
                          [lineNumber |-> 0,
                           content |-> FourSpaces \o previewLineContent(source.rawLines,
                                          source.entries[i].key, source.entries[i].value),
                           type |-> "add", stringKey |-> <<source.entries[i].key>>]]
                    \o <<[lineNumber |-> 0, content |-> <<RCLOSE>>, type |-> "add", stringKey |-> <<>>]>>]

generateMergePreviewWithDetails(sourceResources, targetResources, replaceExisting) ==
    [i \in 1..Len(sourceResources) |-> previewOf(sourceResources[i], targetResources, replaceExisting)]

\* ------------------------------------------------------------------------
\* Locale resolver.  A file or folder name is a sequence of name tokens:
\* segments of letters ("de", "strings"), the separators "_" and "-", and
\* the extension ".xml".
\* ------------------------------------------------------------------------
ValuesFolder == <<"values">>
DefaultLocale == <<"default">>
FolderOf(locale) == <<"values", "-">> \o locale

extractLocaleFromFolderName(folderName) ==
    IF folderName = ValuesFolder THEN DefaultLocale
    ELSE IF Len(folderName) >= 3 /\ folderName[1] = "values" /\ folderName[2] = "-"
    THEN SubSeq(folderName, 3, Len(folderName))      \* /^values-(.+)$/
    ELSE DefaultLocale

\* String.toLowerCase / toUpperCase on the segments of the model's names
toLowerCase(seg) ==
    CASE seg = "CN" -> "cn" [] seg = "BR" -> "br" [] seg = "DE" -> "de" [] seg = "FR" -> "fr"
      [] seg = "EN" -> "en" [] seg = "STRINGS" -> "strings" [] seg = ".XML" -> ".xml"
      [] seg = "Hans" -> "hans"
      [] OTHER -> seg

toUpperCase(seg) ==
    CASE seg = "cn" -> "CN" [] seg = "br" -> "BR" [] seg = "de" -> "DE" [] seg = "fr" -> "FR"
      [] seg = "en" -> "EN" [] seg = "zh" -> "ZH" [] seg = "pt" -> "PT" [] seg = "ar" -> "AR"
      [] seg = "Hans" -> "HANS" [] seg = "b" -> "B"
      [] OTHER -> seg

\* /^[A-Z]{2}$/.test(region)
IsRegionCode(region) == region \in {"CN", "BR", "DE", "FR", "EN", "ZH", "PT", "AR"}

IsSeparator(tok) == tok \in {"_", "-"}

\* .replace(/\.xml$/i, '')
dropXmlSuffix(n) ==
    IF Len(n) > 0 /\ toLowerCase(n[Len(n)]) = ".xml" THEN SubSeq(n, 1, Len(n) - 1) ELSE n

\* .replace(/_strings$/i, '')
dropStringsSuffix(n) ==
    IF Len(n) >= 2 /\ n[Len(n) - 1] = "_" /\ toLowerCase(n[Len(n)]) = "strings"
    THEN SubSeq(n, 1, Len(n) - 2) ELSE n

\* the places where "strings_" starts
stringsAt(n) == {i \in 1..(Len(n) - 1) : toLowerCase(n[i]) = "strings" /\ n[i + 1] = "_"}

\* SubSeq without the two tokens at i and i + 1
cutTwo(n, i) == SubSeq(n, 1, i - 1) \o SubSeq(n, i + 2, Len(n))

\* .replace(/strings_/i, ''): the first "strings_" anywhere in the name
dropFirstStrings(n) ==
    IF stringsAt(n) = {} THEN n
    ELSE cutTwo(n, CHOOSE i \in stringsAt(n) : \A j \in stringsAt(n) : i <= j)

\* .replace(/^strings_/i, '')
dropStringsPrefix(n) ==
    IF Len(n) >= 2 /\ toLowerCase(n[1]) = "strings" /\ n[2] = "_" THEN SubSeq(n, 3, Len(n)) ELSE n

stripAffixes(fileName) ==
    dropStringsPrefix(dropFirstStrings(dropStringsSuffix(dropXmlSuffix(fileName))))

RECURSIVE splitParts(_, _)
\* baseName.split(/[_-]/): the parts between separators, "" for an empty one
splitParts(toks, cur) ==
    IF Len(toks) = 0 THEN <<cur>>
    ELSE IF IsSeparator(Head(toks)) THEN <<cur>> \o splitParts(Tail(toks), "")
    ELSE splitParts(Tail(toks), cur \o Head(toks))

\* the text of a sequence of segments: an empty segment adds no character
textOf(toks) == SelectSeq(toks, LAMBDA t : t # "")

\* { locale, folder: `values-${locale}` }
localeAndFolder(locale) == [locale |-> textOf(locale), folder |-> FolderOf(textOf(locale))]

\* the answer that takes the language and leaves the region out
guessLanguageOnly(parts) ==
    IF toLowerCase(parts[1]) = "en" /\ Len(parts) = 1
    THEN [locale |-> DefaultLocale, folder |-> ValuesFolder]
    ELSE localeAndFolder(<<toLowerCase(parts[1])>>)

\* the answer of guessLocaleFromFileName from the parts of the base name
guessFromParts(parts) ==
    IF toLowerCase(parts[1]) = "en" /\ Len(parts) = 1
    THEN [locale |-> DefaultLocale, folder |-> ValuesFolder]
    ELSE IF Len(parts) >= 2 /\ IsRegionCode(toUpperCase(parts[2]))
    THEN localeAndFolder(<<toLowerCase(parts[1]), "-", "r" \o toUpperCase(parts[2])>>)
    ELSE localeAndFolder(<<toLowerCase(parts[1])>>)

\* the answer of guessLocaleFromFileName from the base name
guessFromBaseName(baseName) ==
    IF baseName = <<>> \/ baseName = <<"strings">>
    THEN [locale |-> DefaultLocale, folder |-> ValuesFolder]
    ELSE guessFromParts(splitParts(baseName, ""))

guessLocaleFromFileName(fileName) == guessFromBaseName(stripAffixes(fileName))

\* ------------------------------------------------------------------------
\* Scanning and mapping
\* ------------------------------------------------------------------------
\* the order String.localeCompare gives the names of the model
NameOrder == <<ValuesFolder, FolderOf(<<"de">>), FolderOf(<<"fr">>),
               <<"de", "_", "strings", ".xml">>, <<"fr", "_", "strings", ".xml">>>>

nameRank(name) == CHOOSE i \in 1..Len(NameOrder) : NameOrder[i] = name

RECURSIVE insertSorted(_, _, _)
insertSorted(sorted, x, field) ==
    IF Len(sorted) = 0 THEN <<x>>
    ELSE IF nameRank(x[field]) < nameRank(Head(sorted)[field])
    THEN <<x>> \o sorted
    ELSE <<Head(sorted)>> \o insertSorted(Tail(sorted), x, field)

RECURSIVE sortByName(_, _)
\* Array.sort((a, b) => a[field].localeCompare(b[field])), which is stable
sortByName(s, field) ==
    IF Len(s) = 0 THEN <<>>
    ELSE insertSorted(sortByName(SubSeq(s, 1, Len(s) - 1), field), s[Len(s)], field)

\* a file of a listing together with what parseStringsXml makes of it
parsedFile(name, content, wanted) ==
    [name |-> name, content |-> content,
     parseResult |-> IF wanted THEN parseStringsXml(content) ELSE [success |-> FALSE]]

\* every file of a listing that was handed to the parser, accepted or not
parsedAny(parsed) == SelectSeq(parsed, LAMBDA e : "entries" \in DOMAIN e.parseResult)

\* if (parseResult.success): the files of a listing that parsed
parsedOk(parsed) == SelectSeq(parsed, LAMBDA e : e.parseResult.success)

\* resources.push({ locale, folderName, entries, rawContent })
targetResourceOf(e) ==
    [locale |-> extractLocaleFromFolderName(e.name),
     folderName |-> e.name,
     entries |-> e.parseResult.entries,
     rawLines |-> EmptyLines,
     rawContent |-> e.content]

\* the elements of s, each through the operator
mapTargets(s) == [i \in 1..Len(s) |-> targetResourceOf(s[i])]

\* dir: the listing of a directory, a sequence of [name, content]; a values*
\* folder without strings.xml has content <<>>
scanStringsFromDirectory(dir) ==
    mapTargets(parsedOk([i \in 1..Len(dir) |->
        parsedFile(dir[i].name, dir[i].content,
                   Len(dir[i].name) > 0 /\ dir[i].name[1] = "values" /\ dir[i].content # <<>>)]))

\* files.push({ fileName, entries, rawLines, suggestedLocale, suggestedFolder })
sourceFileOf(e, guess) ==
    [fileName |-> e.name,
     entries |-> e.parseResult.entries,
     rawLines |-> e.parseResult.rawLines,
     suggestedLocale |-> guess.locale,
     suggestedFolder |-> guess.folder]

mapSources(s) == [i \in 1..Len(s) |-> sourceFileOf(s[i], guessLocaleFromFileName(s[i].name))]

scanAllXmlFiles(dir) ==
    sortByName(mapSources(parsedOk([i \in 1..Len(dir) |->
        parsedFile(dir[i].name, dir[i].content,
                   Len(dir[i].name) > 0 /\ dir[i].name[Len(dir[i].name)] = ".xml")])), "fileName")

\* new Map(mappings.map(m => [m.sourceFileName, m])).get(fileName)
\* new Map(mappings.map(m => [m.sourceFileName, m])).get(fileName): the last
\* mapping of that file name
getMapping(mappings, fileName) ==
    LET hits == {i \in 1..Len(mappings) : mappings[i].sourceFileName = fileName}
    IN IF hits = {} THEN <<>> ELSE <<mappings[CHOOSE i \in hits : \A j \in hits : j <= i]>>

applyMappingToSources(sourceFiles, mappings) ==
    LET used == SelectSeq(sourceFiles, LAMBDA f :
                    getMapping(mappings, f.fileName) # <<>>
                    /\ getMapping(mappings, f.fileName)[1].enabled)
    IN [i \in 1..Len(used) |->
          [locale |-> getMapping(mappings, used[i].fileName)[1].locale,
           folderName |-> getMapping(mappings, used[i].fileName)[1].targetFolder,
           entries |-> used[i].entries,
           rawLines |-> used[i].rawLines,
           rawContent |-> <<>>]]

\* the mapping of one scanned file: the rule of a known file with its entry
\* count refreshed, a rule made from the suggestion for a new file
mappingOfFile(file, existing) ==
    IF existing # <<>>
    THEN [existing[1] EXCEPT !.entryCount = Len(file.entries)]
    ELSE [sourceFileName |-> file.fileName,
          targetFolder |-> file.suggestedFolder,
          locale |-> file.suggestedLocale,
          enabled |-> TRUE,
          entryCount |-> Len(file.entries)]

\* the reconciliation that forgets the rules there were
generateMappingsAfresh(files, mappings) ==
    sortByName([i \in 1..Len(files) |-> mappingOfFile(files[i], <<>>)], "targetFolder")

\* the reconciliation of selectSourceDir: keep the rule of a known file,
\* make one from the suggestion for a new file, sort by targetFolder
generateMappingsFromFiles(files, mappings) ==
    sortByName([i \in 1..Len(files) |->
                   mappingOfFile(files[i], getMapping(mappings, files[i].fileName))], "targetFolder")

\* ------------------------------------------------------------------------
\* handleMerge's skip-existing filter and executeMerge's choice of content
\* ------------------------------------------------------------------------
\* the target handleMerge looks a source up against
filterTarget(source, targetResources) == getByLocale(targetResources, source.locale)

filterExisting(source, targetResources) ==
    LET t == filterTarget(source, targetResources)
    IN IF t = <<>> THEN source
       ELSE LET kept == SelectSeq(source.entries, LAMBDA e : ~mapHas(t[1].entries, e.key))
            IN [source EXCEPT !.entries = kept,
                              !.rawLines = [k \in (DOMAIN source.rawLines) \cap mapKeys(kept) |->
                                              source.rawLines[k]]]

\* the sourceResources handleMerge hands to executeMerge
mergeSources(sourceFiles, mappings, targetResources, replaceExisting) ==
    LET all == applyMappingToSources(sourceFiles, mappings)
    IN IF replaceExisting THEN all
       ELSE [i \in 1..Len(all) |-> filterExisting(all[i], targetResources)]

\* the target executeMerge merges a source into
writeTarget(source, targetResources) == getByFolder(targetResources, source.folderName)

\* the content executeMerge computes for one source
mergeContent(source, targetResources, comment) ==
    LET t == writeTarget(source, targetResources)
    IN IF t # <<>> /\ t[1].rawContent # <<>>
       THEN mergeIntoExistingXml(t[1].rawContent, source.entries, comment, source.rawLines)
       ELSE generateStringsXmlContent(source.entries, FourSpaces, comment, source.rawLines)

\* what writeStringsXml puts into strings.xml
writeStringsXml(content) == normalizeLineEndings(content)

\* ------------------------------------------------------------------------
\* The files the model is run on
\* ------------------------------------------------------------------------
MaxSourceEntries == 2

TwoSpaces == <<SP, SP>>

TargetForms == {"dq", "sq", "attr", "multi", "cmt", "note"}

\* the lines of one target item for key k, all with value 1
targetItem(k, form, ind) ==
    CASE form = "dq" -> <<ind \o stringElement(k, <<"1">>)>>
      [] form = "sq" -> <<ind \o <<OpenSq(k), "1", SCLOSE>>>>
      [] form = "attr" -> <<ind \o <<OpenAttr(k), "1", SCLOSE>>>>
      [] form = "multi" -> <<ind \o <<OpenDq(k), "1">>, ind \o <<"1", SCLOSE>>>>
      [] form = "cmt" -> <<ind \o <<COPEN, SP, OpenDq(k), "1", SCLOSE, SP, CCLOSE>>>>
      [] form = "note" -> <<ind \o stringElement(k, <<"1">>) \o <<SP, COPEN, SP, "x", SP, CCLOSE>>>>

RECURSIVE joinWith(_, _)
\* every line followed by the line terminator eol
joinWith(lines, eol) ==
    IF Len(lines) = 0 THEN <<>> ELSE Head(lines) \o eol \o joinWith(Tail(lines), eol)

RECURSIVE bodyLines(_, _, _)
\* forms: key -> form or "none"; the items in the order of KeyOrder
bodyLines(i, forms, ind) ==
    IF i > NumKeys THEN <<>>
    ELSE (IF forms[KeyOrder[i]] = "none" THEN <<>> ELSE targetItem(KeyOrder[i], forms[KeyOrder[i]], ind))
         \o bodyLines(i + 1, forms, ind)

targetFile(forms, ind, eol) ==
    joinWith(<<<<DECL>>, <<ROPEN>>>> \o bodyLines(1, forms, ind) \o <<<<RCLOSE>>>>, eol)

\* the item of key b may be other than a plain <string name="b">1</string> line
PlainForms == [Keys -> {"none", "dq"}]
TargetFormChoices ==
    PlainForms \cup
    {[f EXCEPT !["b"] = form] : f \in PlainForms, form \in TargetForms \ {"dq"}}

SelfClosedTarget == <<DECL, NL, REMPTY, NL>>
PairLineTarget ==
    joinWith(<<<<DECL>>, <<ROPEN>>,
               FourSpaces \o stringElement("a", <<"1">>) \o stringElement("b", <<"1">>),
               <<RCLOSE>>>>, <<NL>>)
MalformedTarget == <<DECL, NL, ROPEN, NL, OpenDq("a"), "1", NL>>
NoTarget == <<>>

Targets ==
    {targetFile(f, FourSpaces, <<NL>>) : f \in TargetFormChoices}
    \cup {targetFile(f, TwoSpaces, <<NL>>) : f \in PlainForms}
    \cup {targetFile(f, FourSpaces, <<CR, NL>>) : f \in PlainForms}
    \cup {SelfClosedTarget, PairLineTarget, MalformedTarget, NoTarget}

SourceForms == {"v1", "v2", "esc", "amp", "shadow"}

\* the lines of one source item: v1/v2 a line with value 1/2; esc and amp
\* span two lines (no raw line) and decode to "\n&" and "\n&amp;"; shadow is
\* a line with value 2 followed by a commented-out line of the same name
sourceItem(k, form) ==
    CASE form = "v1" -> <<FourSpaces \o stringElement(k, <<"1">>)>>
      [] form = "v2" -> <<FourSpaces \o stringElement(k, <<"2">>)>>
      [] form = "esc" -> <<FourSpaces \o <<OpenDq(k)>>, EntAmp \o <<SCLOSE>>>>
      [] form = "amp" -> <<FourSpaces \o <<OpenDq(k)>>, EntAmp \o <<"a", "m", "p", ";", SCLOSE>>>>
      [] form = "shadow" -> <<FourSpaces \o stringElement(k, <<"2">>),
                              FourSpaces \o <<COPEN, SP, OpenDq(k), "0", SCLOSE, SP, CCLOSE>>>>

\* the sources: up to MaxSourceEntries items of distinct keys in any order,
\* the item of key a may be other than a plain line
SourceChoices ==
    UNION {{s \in [1..n -> Keys \X SourceForms] :
              /\ \A i, j \in 1..n : i # j => s[i][1] # s[j][1]
              /\ \A i \in 1..n : s[i][2] \notin {"v1", "v2"} => s[i][1] = "a"}
           : n \in 0..MaxSourceEntries}

RECURSIVE sourceLines(_)
sourceLines(s) ==
    IF Len(s) = 0 THEN <<>> ELSE sourceItem(s[1][1], s[1][2]) \o sourceLines(Tail(s))

sourceFile(s) == joinWith(<<<<DECL>>, <<ROPEN>>>> \o sourceLines(s) \o <<<<RCLOSE>>>>, <<NL>>)

Sources == {sourceFile(s) : s \in SourceChoices}

Comments == {<<>>, <<"i">>}

\* ------------------------------------------------------------------------
\* The StringResourceProcessor component and the directories it works on
\* ------------------------------------------------------------------------
MaxMerges == 2
MaxEdits == 1
MaxFailures == 1
MaxAborts == 1

None == "null"

FolderDe == FolderOf(<<"de">>)
FolderFr == FolderOf(<<"fr">>)
SrcFileDe == <<"de", "_", "strings", ".xml">>
SrcFileFr == <<"fr", "_", "strings", ".xml">>

\* the folder names the user types into the Mapping Editor
TargetFolderChoices == {FolderDe, FolderFr}
FolderOrder == <<FolderDe, FolderFr>>

\* the res directory of the project: values-fr/strings.xml holds a and c
InitialDisk ==
    [f \in TargetFolderChoices |->
        IF f = FolderFr
        THEN targetFile([k \in Keys |-> IF k \in {"a", "c"} THEN "dq" ELSE "none"], FourSpaces, <<NL>>)
        ELSE <<>>]

\* the folder of translations: de_strings.xml with a, fr_strings.xml with a and b
SourceDir ==
    <<[name |-> SrcFileDe, content |-> sourceFile(<<<<"a", "v2">>>>)],
      [name |-> SrcFileFr, content |-> sourceFile(<<<<"a", "v2">>, <<"b", "v2">>>>)]>>

\* another folder of translations: fr_strings.xml alone, with a only
OtherSourceDir ==
    <<[name |-> SrcFileFr, content |-> sourceFile(<<<<"a", "v2">>>>)]>>

\* the handles showDirectoryPicker hands out for the two folders
SourceHandle == "src"
OtherSourceHandle == "src2"
SourceHandles == {SourceHandle, OtherSourceHandle}
\* a folder of translations whose files have no key in common:
\* de_strings.xml with c, fr_strings.xml with a and b
SharedSourceDir ==
    <<[name |-> SrcFileDe, content |-> sourceFile(<<<<"c", "v2">>>>)],
      [name |-> SrcFileFr, content |-> sourceFile(<<<<"a", "v2">>, <<"b", "v2">>>>)]>>
SharedSourceHandle == "src3"

sourceDirOf(handle) ==
    IF handle = SourceHandle THEN SourceDir
    ELSE IF handle = SharedSourceHandle THEN SharedSourceDir
    ELSE OtherSourceDir

\* the entries of the res directory as dirHandle.values() lists them
dirListing(d) == [i \in 1..Len(FolderOrder) |-> [name |-> FolderOrder[i], content |-> d[FolderOrder[i]]]]

VARIABLES
    disk,               \* folder name -> content of its strings.xml, <<>> if none
    targetDirHandle, targetResources,
    sourceDirHandle, sourceFiles,
    mappings, tempMappings,
    replaceExisting,
    previewDetails,
    status, error,
    showMappingDialog, showImportDialog, importComment, importCompleted,
    merges,             \* the calls of executeMerge that have not returned yet
    lastResult,         \* <<what the executeMerge that returned last reported>>, or <<>>
    started, edits, failures,    \* counters that bound the run
    aborts,             \* directory pickers the user dismissed
    savedConfig,        \* <<the mappings stored in localStorage>>, or <<>>
    customRules,        \* history: file name -> the rule the user last gave it (an
                        \* imported configuration replaces all the rules there were)
    fx                  \* the single-file pipeline of SpecText

uiVars == <<disk, targetDirHandle, targetResources, sourceDirHandle, sourceFiles,
            mappings, tempMappings, replaceExisting, previewDetails, status, error,
            showMappingDialog, showImportDialog, importComment, importCompleted,
            merges, lastResult, started, edits, failures, aborts, savedConfig, customRules>>

vars == <<disk, targetDirHandle, targetResources, sourceDirHandle, sourceFiles,
          mappings, tempMappings, replaceExisting, previewDetails, status, error,
          showMappingDialog, showImportDialog, importComment, importCompleted,
          merges, lastResult, started, edits, failures, aborts, savedConfig, customRules, fx>>

FxOff == [pc |-> "off"]

\* the rule of one mapping
ruleOf(m) == [targetFolder |-> m.targetFolder, enabled |-> m.enabled]

\* the rules of the mappings m recorded over cr
recordRules(cr, m) ==
    [n \in (DOMAIN cr) \cup {m[i].sourceFileName : i \in 1..Len(m)} |->
        IF getMapping(m, n) # <<>> THEN ruleOf(getMapping(m, n)[1]) ELSE cr[n]]

NoRules == [n \in {} |-> <<>>]

\* the component after its first render and the effect "Load saved mappings
\* on mount", stored being what loadMappingConfig finds in localStorage
Mounted(stored) ==
    /\ disk = InitialDisk
    /\ targetDirHandle = None /\ targetResources = <<>>
    /\ sourceDirHandle = None /\ sourceFiles = <<>>
    /\ mappings = (IF stored # <<>> THEN stored[1] ELSE <<>>) /\ tempMappings = <<>>
    /\ savedConfig = stored
    /\ customRules = recordRules(NoRules, mappings)
    /\ replaceExisting = TRUE
    /\ previewDetails = <<>>
    /\ status = "idle" /\ error = None
    /\ showMappingDialog = FALSE /\ showImportDialog = FALSE
    /\ importComment = <<>> /\ importCompleted = FALSE
    /\ merges = <<>>
    /\ lastResult = <<>>
    /\ started = 0 /\ edits = 0 /\ failures = 0 /\ aborts = 0

\* localStorage holds no configuration
UiInit == Mounted(<<>>)

Init == UiInit /\ fx = FxOff

\* the effect "Auto-save mappings when they change", run after setMappings(m)
AutoSave(m) == savedConfig' = IF Len(m) > 0 THEN <<m>> ELSE savedConfig

\* the effect "Update preview when data changes": it runs after a render in
\* which one of its dependencies got a new value, and then sets the status
PreviewEffect(depsChanged, m, sf, tr, th, re, handlerStatus) ==
    IF depsChanged /\ Len(sf) > 0 /\ Len(m) > 0 /\ th # None
    THEN /\ previewDetails' = generateMergePreviewWithDetails(applyMappingToSources(sf, m), tr, re)
         /\ status' = "ready"
    ELSE /\ previewDetails' = previewDetails
         /\ status' = handlerStatus

NoDialog == ~showMappingDialog /\ ~showImportDialog

\* the mapping list is rendered
ListShown == targetDirHandle # None /\ sourceDirHandle # None /\ Len(mappings) > 0

RECURSIVE SumOf(_, _)
SumOf(s, field) == IF Len(s) = 0 THEN 0 ELSE Head(s)[field] + SumOf(Tail(s), field)

totalAdd == SumOf(previewDetails, "addCount")
totalUpdate == SumOf(previewDetails, "overwriteCount")
canImport == totalAdd > 0 \/ totalUpdate > 0

\* selectProjectDir, the directory picked and scanned without error
selectProjectDir ==
    /\ NoDialog
    /\ targetDirHandle # None => edits < MaxEdits
    /\ edits' = IF targetDirHandle # None THEN edits + 1 ELSE edits
    /\ targetDirHandle' = "res"
    /\ targetResources' = scanStringsFromDirectory(dirListing(disk))
    /\ error' = None
    /\ PreviewEffect(TRUE, mappings, sourceFiles, targetResources', targetDirHandle', replaceExisting,
                     IF Len(sourceFiles) > 0 THEN "ready" ELSE "idle")
    /\ UNCHANGED <<disk, sourceDirHandle, sourceFiles, mappings, tempMappings, replaceExisting,
                   showMappingDialog, showImportDialog, importComment, importCompleted,
                   merges, lastResult, started, failures, fx, aborts, savedConfig, customRules>>

\* selectProjectDir when findAndroidResourceDirectories finds no res
\* directory under the folder picked
selectProjectDirNoRes ==
    /\ NoDialog /\ edits < MaxEdits
    /\ edits' = edits + 1
    /\ error' = "no res directory"
    /\ status' = "error"
    /\ UNCHANGED <<disk, targetDirHandle, targetResources, sourceDirHandle, sourceFiles, mappings,
                   tempMappings, replaceExisting, previewDetails, showMappingDialog,
                   showImportDialog, importComment, importCompleted, merges, lastResult, started,
                   failures, fx, aborts, savedConfig, customRules>>

\* selectProjectDir when scanStringsFromDirectory throws in loadResDirectory:
\* the handle is set before the scan, so the preview effect has run on it
\* with the resources there were when the catch sets the error
loadResDirectoryFails ==
    /\ NoDialog /\ edits < MaxEdits
    /\ edits' = edits + 1
    /\ targetDirHandle' = "res"
    /\ previewDetails' =
          IF Len(sourceFiles) > 0 /\ Len(mappings) > 0
          THEN generateMergePreviewWithDetails(applyMappingToSources(sourceFiles, mappings),
                                               targetResources, replaceExisting)
          ELSE previewDetails
    /\ error' = "read failed"
    /\ status' = "error"
    /\ UNCHANGED <<disk, targetResources, sourceDirHandle, sourceFiles, mappings, tempMappings,
                   replaceExisting, showMappingDialog, showImportDialog, importComment,
                   importCompleted, merges, lastResult, started, failures, fx, aborts, savedConfig,
                   customRules>>

\* selectProjectDir when showDirectoryPicker rejects with AbortError
selectProjectDirAborted ==
    /\ NoDialog /\ aborts < MaxAborts
    /\ aborts' = aborts + 1
    /\ UNCHANGED <<disk, targetDirHandle, targetResources, sourceDirHandle, sourceFiles, mappings,
                   tempMappings, replaceExisting, previewDetails, status, error, showMappingDialog,
                   showImportDialog, importComment, importCompleted, merges, lastResult, started,
                   edits, failures, fx, savedConfig, customRules>>

\* selectSourceDir, the directory picked and scanned without error
selectSourceDir(handle) ==
    /\ NoDialog
    /\ sourceDirHandle # None => edits < MaxEdits
    /\ edits' = IF sourceDirHandle # None THEN edits + 1 ELSE edits
    /\ sourceDirHandle' = handle
    /\ sourceFiles' = scanAllXmlFiles(sourceDirOf(handle))
    /\ mappings' = generateMappingsFromFiles(sourceFiles', mappings)
    /\ AutoSave(mappings')
    /\ error' = None
    /\ PreviewEffect(TRUE, mappings', sourceFiles', targetResources, targetDirHandle, replaceExisting,
                     IF targetDirHandle # None THEN "ready" ELSE "idle")
    /\ UNCHANGED <<disk, targetDirHandle, targetResources, tempMappings, replaceExisting,
                   showMappingDialog, showImportDialog, importComment, importCompleted,
                   merges, lastResult, started, failures, fx, aborts, customRules>>

\* the dismissed picker taken for a picker that failed
selectSourceDirRejected ==
    /\ NoDialog /\ aborts < MaxAborts
    /\ aborts' = aborts + 1
    /\ error' = "pick failed"
    /\ status' = "error"
    /\ UNCHANGED <<disk, targetDirHandle, targetResources, sourceDirHandle, sourceFiles, mappings,
                   tempMappings, replaceExisting, previewDetails, showMappingDialog,
                   showImportDialog, importComment, importCompleted, merges, lastResult, started,
                   edits, failures, fx, savedConfig, customRules>>

\* selectSourceDir when showDirectoryPicker rejects with AbortError
selectSourceDirAborted ==
    /\ NoDialog /\ aborts < MaxAborts
    /\ aborts' = aborts + 1
    /\ UNCHANGED <<disk, targetDirHandle, targetResources, sourceDirHandle, sourceFiles, mappings,
                   tempMappings, replaceExisting, previewDetails, status, error, showMappingDialog,
                   showImportDialog, importComment, importCompleted, merges, lastResult, started,
                   edits, failures, fx, savedConfig, customRules>>

\* handleRefresh, the refresh button of the action bar: both directories
\* are picked by then whenever the bar is rendered
handleRefresh ==
    /\ NoDialog /\ Len(previewDetails) > 0 /\ edits < MaxEdits
    /\ targetDirHandle # None /\ sourceDirHandle # None
    /\ edits' = edits + 1
    /\ targetResources' = scanStringsFromDirectory(dirListing(disk))
    /\ sourceFiles' = scanAllXmlFiles(sourceDirOf(sourceDirHandle))
    /\ mappings' = generateMappingsFromFiles(sourceFiles', mappings)
    /\ AutoSave(mappings')
    /\ error' = None
    /\ PreviewEffect(TRUE, mappings', sourceFiles', targetResources', targetDirHandle, replaceExisting, "ready")
    /\ UNCHANGED <<disk, targetDirHandle, sourceDirHandle, tempMappings, replaceExisting,
                   showMappingDialog, showImportDialog, importComment, importCompleted,
                   merges, lastResult, started, failures, fx, aborts, customRules>>

toggleAt(m, index) == [i \in 1..Len(m) |-> IF i = index THEN [m[i] EXCEPT !.enabled = ~@] ELSE m[i]]

toggleMapping(index) ==
    /\ NoDialog /\ ListShown /\ edits < MaxEdits
    /\ mappings' = toggleAt(mappings, index)
    /\ AutoSave(mappings')
    /\ customRules' = recordRules(customRules, mappings')
    /\ edits' = edits + 1
    /\ PreviewEffect(TRUE, mappings', sourceFiles, targetResources, targetDirHandle, replaceExisting, status)
    /\ UNCHANGED <<disk, targetDirHandle, targetResources, sourceDirHandle, sourceFiles, tempMappings,
                   replaceExisting, error, showMappingDialog, showImportDialog, importComment,
                   importCompleted, merges, lastResult, started, failures, fx, aborts>>

\* the "replace existing" checkbox of the sidebar
setReplaceExisting ==
    /\ NoDialog /\ Len(sourceFiles) > 0
    /\ replaceExisting' = ~replaceExisting
    /\ PreviewEffect(TRUE, mappings, sourceFiles, targetResources, targetDirHandle, replaceExisting', status)
    /\ UNCHANGED <<disk, targetDirHandle, targetResources, sourceDirHandle, sourceFiles, mappings,
                   tempMappings, error, showMappingDialog, showImportDialog, importComment,
                   importCompleted, merges, lastResult, started, edits, failures, fx, aborts, savedConfig, customRules>>

\* onOpenSettings / onEditItem
openSettings ==
    /\ NoDialog /\ ListShown
    /\ tempMappings' = mappings
    /\ showMappingDialog' = TRUE
    /\ UNCHANGED <<disk, targetDirHandle, targetResources, sourceDirHandle, sourceFiles, mappings,
                   replaceExisting, previewDetails, status, error, showImportDialog, importComment,
                   importCompleted, merges, lastResult, started, edits, failures, fx, aborts, savedConfig, customRules>>

\* the target-folder input writing through to the mappings
updateMappingAtOnce(index, folder) ==
    /\ showMappingDialog /\ edits < MaxEdits
    /\ index \in 1..Len(tempMappings)
    /\ tempMappings[index].targetFolder # folder
    /\ tempMappings' = [tempMappings EXCEPT ![index].targetFolder = folder]
    /\ mappings' = tempMappings'
    /\ edits' = edits + 1
    /\ UNCHANGED <<disk, targetDirHandle, targetResources, sourceDirHandle, sourceFiles,
                   replaceExisting, previewDetails, status, error, showMappingDialog, showImportDialog,
                   importComment, importCompleted, merges, lastResult, started, failures, fx, aborts, savedConfig, customRules>>

\* the target-folder input of the Mapping Editor: onUpdate(idx, { targetFolder })
updateTempMapping(index, folder) ==
    /\ showMappingDialog /\ edits < MaxEdits
    /\ index \in 1..Len(tempMappings)
    /\ tempMappings[index].targetFolder # folder
    /\ tempMappings' = [tempMappings EXCEPT ![index].targetFolder = folder]
    /\ edits' = edits + 1
    /\ UNCHANGED <<disk, targetDirHandle, targetResources, sourceDirHandle, sourceFiles, mappings,
                   replaceExisting, previewDetails, status, error, showMappingDialog, showImportDialog,
                   importComment, importCompleted, merges, lastResult, started, failures, fx, aborts, savedConfig, customRules>>

toggleTempMapping(index) ==
    /\ showMappingDialog /\ edits < MaxEdits
    /\ index \in 1..Len(tempMappings)
    /\ tempMappings' = toggleAt(tempMappings, index)
    /\ edits' = edits + 1
    /\ UNCHANGED <<disk, targetDirHandle, targetResources, sourceDirHandle, sourceFiles, mappings,
                   replaceExisting, previewDetails, status, error, showMappingDialog, showImportDialog,
                   importComment, importCompleted, merges, lastResult, started, failures, fx, aborts, savedConfig, customRules>>

\* the rule of tempMappings[index] set back to what the scan suggests
resetOne(m, index, files) ==
    IF \E j \in 1..Len(files) : files[j].fileName = m[index].sourceFileName
    THEN LET f == files[CHOOSE j \in 1..Len(files) :
                        /\ files[j].fileName = m[index].sourceFileName
                        /\ \A k \in 1..(j - 1) : files[k].fileName # m[index].sourceFileName]
         IN [m[index] EXCEPT !.targetFolder = f.suggestedFolder,
                             !.locale = f.suggestedLocale,
                             !.enabled = TRUE]
    ELSE m[index]

resetTempMapping(index) ==
    /\ showMappingDialog /\ edits < MaxEdits
    /\ index \in 1..Len(tempMappings)
    /\ tempMappings' = [tempMappings EXCEPT ![index] = resetOne(tempMappings, index, sourceFiles)]
    /\ edits' = edits + 1
    /\ UNCHANGED <<disk, targetDirHandle, targetResources, sourceDirHandle, sourceFiles, mappings,
                   replaceExisting, previewDetails, status, error, showMappingDialog,
                   showImportDialog, importComment, importCompleted, merges, lastResult, started,
                   failures, fx, aborts, savedConfig, customRules>>

resetAllTempMappings ==
    /\ showMappingDialog /\ edits < MaxEdits
    /\ tempMappings' = [i \in 1..Len(tempMappings) |-> resetOne(tempMappings, i, sourceFiles)]
    /\ edits' = edits + 1
    /\ UNCHANGED <<disk, targetDirHandle, targetResources, sourceDirHandle, sourceFiles, mappings,
                   replaceExisting, previewDetails, status, error, showMappingDialog,
                   showImportDialog, importComment, importCompleted, merges, lastResult, started,
                   failures, fx, aborts, savedConfig, customRules>>

saveMappings ==
    /\ showMappingDialog
    /\ mappings' = tempMappings
    /\ AutoSave(mappings')
    /\ customRules' = recordRules(customRules, mappings')
    /\ showMappingDialog' = FALSE
    /\ PreviewEffect(TRUE, mappings', sourceFiles, targetResources, targetDirHandle, replaceExisting, status)
    /\ UNCHANGED <<disk, targetDirHandle, targetResources, sourceDirHandle, sourceFiles, tempMappings,
                   replaceExisting, error, showImportDialog, importComment, importCompleted,
                   merges, lastResult, started, edits, failures, fx, aborts>>

\* the documents the user imports as mapping configuration: text that is no
\* JSON, JSON without a mappings member, JSON whose mappings is an array
SrcFileEs == <<"es", "_", "strings", ".xml">>

NotJson == [json |-> FALSE, hasMappings |-> FALSE, mappings |-> <<>>]
JsonWithoutMappings == [json |-> TRUE, hasMappings |-> FALSE, mappings |-> <<>>]
ConfigOf(m) == [json |-> TRUE, hasMappings |-> TRUE, mappings |-> m]

\* a configuration exported with another folder of translations
ForeignConfig ==
    ConfigOf(<<[sourceFileName |-> SrcFileEs, targetFolder |-> FolderOf(<<"es">>),
                locale |-> <<"es">>, enabled |-> TRUE, entryCount |-> 1]>>)

\* a configuration that sends de_strings.xml to values-fr
CustomConfig ==
    ConfigOf(<<[sourceFileName |-> SrcFileDe, targetFolder |-> FolderFr,
                locale |-> <<"de">>, enabled |-> TRUE, entryCount |-> 1]>>)

InvalidDocuments == {NotJson, JsonWithoutMappings}
ConfigDocuments == InvalidDocuments \cup {ForeignConfig, CustomConfig}

\* <<the configuration>>, or <<>> for null
parseImportedConfig(content) ==
    IF content.json /\ content.hasMappings THEN <<[mappings |-> content.mappings]>> ELSE <<>>

\* handleImportFile of the mapping list with handleImportMappings, once the
\* FileReader has loaded the document
handleImportFile(content) ==
    /\ NoDialog /\ ListShown /\ edits < MaxEdits
    /\ edits' = edits + 1
    /\ LET config == parseImportedConfig(content)
       IN IF config # <<>>
          THEN /\ mappings' = config[1].mappings
               /\ AutoSave(mappings')
               /\ customRules' = recordRules(NoRules, mappings')
               /\ PreviewEffect(TRUE, mappings', sourceFiles, targetResources, targetDirHandle,
                                replaceExisting, status)
          ELSE UNCHANGED <<mappings, savedConfig, customRules, previewDetails, status>>
    /\ UNCHANGED <<disk, targetDirHandle, targetResources, sourceDirHandle, sourceFiles,
                   tempMappings, replaceExisting, error, showMappingDialog, showImportDialog,
                   importComment, importCompleted, merges, lastResult, started, failures, fx,
                   aborts>>

\* the Mapping Editor closed by X, overlay, Cancel or ESC
closeMappingDialog ==
    /\ showMappingDialog
    /\ showMappingDialog' = FALSE
    /\ UNCHANGED <<disk, targetDirHandle, targetResources, sourceDirHandle, sourceFiles, mappings,
                   tempMappings, replaceExisting, previewDetails, status, error, showImportDialog,
                   importComment, importCompleted, merges, lastResult, started, edits, failures, fx, aborts, savedConfig, customRules>>

\* onOpenImportDialog of the action bar
openImportDialog ==
    /\ NoDialog /\ Len(previewDetails) > 0 /\ canImport
    /\ importComment' = <<>>
    /\ showImportDialog' = TRUE
    /\ UNCHANGED <<disk, targetDirHandle, targetResources, sourceDirHandle, sourceFiles, mappings,
                   tempMappings, replaceExisting, previewDetails, status, error, showMappingDialog,
                   importCompleted, merges, lastResult, started, edits, failures, fx, aborts, savedConfig, customRules>>

\* onCommentChange
setImportComment(comment) ==
    /\ showImportDialog /\ importComment # comment /\ edits < MaxEdits
    /\ importComment' = comment
    /\ edits' = edits + 1
    /\ UNCHANGED <<disk, targetDirHandle, targetResources, sourceDirHandle, sourceFiles, mappings,
                   tempMappings, replaceExisting, previewDetails, status, error, showMappingDialog,
                   showImportDialog, importCompleted, merges, lastResult, started, failures, fx, aborts, savedConfig, customRules>>

\* onClose of the import dialog while importCompleted is false: the X button
\* and the overlay (the Cancel button and ESC are the same handler, and are
\* the only ones switched off while status is 'merging')
closeImportDialog ==
    /\ showImportDialog /\ ~importCompleted
    /\ showImportDialog' = FALSE
    /\ UNCHANGED <<disk, targetDirHandle, targetResources, sourceDirHandle, sourceFiles, mappings,
                   tempMappings, replaceExisting, previewDetails, status, error, showMappingDialog,
                   importComment, importCompleted, merges, lastResult, started, edits, failures, fx, aborts, savedConfig, customRules>>

\* removes the i-th element
removeAt(s, i) == SubSeq(s, 1, i - 1) \o SubSeq(s, i + 1, Len(s))

\* handleMerge up to its await: the confirm button of the import dialog,
\* which is disabled while status is 'merging'.  With nothing to write
\* executeMerge returns at once and handleMerge goes on to its end.
handleMerge ==
    /\ showImportDialog /\ ~importCompleted /\ status # "merging"
    /\ targetDirHandle # None /\ Len(sourceFiles) > 0
    /\ started < MaxMerges
    /\ started' = started + 1
    /\ LET srcs == mergeSources(sourceFiles, mappings, targetResources, replaceExisting)
       IN IF Len(srcs) = 0
          THEN /\ merges' = merges
               /\ lastResult' = <<[success |-> TRUE, attempted |-> 0, total |-> 0]>>
               /\ importCompleted' = TRUE
          ELSE /\ merges' = Append(merges,
                     [sourceResources |-> srcs, targetResources |-> targetResources,
                      comment |-> importComment, next |-> 1, replaceExisting |-> replaceExisting])
               /\ lastResult' = lastResult
               /\ importCompleted' = importCompleted
    /\ status' = "merging"
    /\ error' = None
    /\ UNCHANGED <<disk, targetDirHandle, targetResources, sourceDirHandle, sourceFiles, mappings,
                   tempMappings, replaceExisting, previewDetails, showMappingDialog, showImportDialog,
                   importComment, edits, failures, fx, aborts, savedConfig, customRules>>

\* one turn of the loop of executeMerge whose writeStringsXml succeeds; after
\* the last one executeMerge returns success and handleMerge goes on
mergeWrite(p) ==
    /\ p \in 1..Len(merges)
    /\ LET m == merges[p]
           source == m.sourceResources[m.next]
           last == m.next = Len(m.sourceResources)
       IN /\ disk' = [disk EXCEPT ![source.folderName] =
                         writeStringsXml(mergeContent(source, m.targetResources, m.comment))]
          /\ IF last
             THEN /\ merges' = removeAt(merges, p)
                  /\ lastResult' = <<[success |-> TRUE, attempted |-> m.next,
                                     total |-> Len(m.sourceResources)]>>
                  /\ importCompleted' = TRUE
             ELSE /\ merges' = [merges EXCEPT ![p].next = @ + 1]
                  /\ lastResult' = lastResult
                  /\ importCompleted' = importCompleted
    /\ UNCHANGED <<targetDirHandle, targetResources, sourceDirHandle, sourceFiles, mappings,
                   tempMappings, replaceExisting, previewDetails, status, error, showMappingDialog,
                   showImportDialog, importComment, started, edits, failures, fx, aborts, savedConfig, customRules>>

\* one turn of the loop whose writeStringsXml throws: the catch of
\* executeMerge returns the failure, handleMerge reports it
mergeWriteFails(p) ==
    /\ p \in 1..Len(merges)
    /\ failures < MaxFailures
    /\ failures' = failures + 1
    /\ merges' = removeAt(merges, p)
    /\ lastResult' = <<[success |-> FALSE, attempted |-> merges[p].next,
                       total |-> Len(merges[p].sourceResources)]>>
    /\ error' = "write failed"
    /\ status' = "error"
    /\ UNCHANGED <<disk, targetDirHandle, targetResources, sourceDirHandle, sourceFiles, mappings,
                   tempMappings, replaceExisting, previewDetails, showMappingDialog, showImportDialog,
                   importComment, importCompleted, started, edits, fx, aborts, savedConfig, customRules>>

\* handleImportConfirm: the confirm button of the completed import, or
\* closing the dialog then
handleImportConfirm ==
    /\ showImportDialog /\ importCompleted /\ targetDirHandle # None
    /\ showImportDialog' = FALSE
    /\ importCompleted' = FALSE
    /\ targetResources' = scanStringsFromDirectory(dirListing(disk))
    /\ PreviewEffect(TRUE, mappings, sourceFiles, targetResources', targetDirHandle, replaceExisting, "success")
    /\ UNCHANGED <<disk, targetDirHandle, sourceDirHandle, sourceFiles, mappings, tempMappings,
                   replaceExisting, error, showMappingDialog, importComment, merges, lastResult, started, edits, failures, fx, aborts, savedConfig, customRules>>

Next ==
    \/ selectProjectDir
    \/ selectProjectDirNoRes
    \/ loadResDirectoryFails
    \/ selectSourceDir(SourceHandle)
    \/ handleRefresh
    \/ \E i \in 1..Len(mappings) : toggleMapping(i)
    \/ setReplaceExisting
    \/ openSettings
    \/ \E i \in 1..Len(tempMappings), f \in TargetFolderChoices : updateTempMapping(i, f)
    \/ \E i \in 1..Len(tempMappings) : toggleTempMapping(i)
    \/ saveMappings
    \/ closeMappingDialog
    \/ openImportDialog
    \/ \E c \in Comments : setImportComment(c)
    \/ closeImportDialog
    \/ handleMerge
    \/ \E p \in 1..Len(merges) : mergeWrite(p)
    \/ \E p \in 1..Len(merges) : mergeWriteFails(p)
    \/ handleImportConfirm

Spec == Init /\ [][Next]_vars

\* ------------------------------------------------------------------------
\* The mapping rules: the component started with the rules an earlier
\* session left in localStorage, the folders of translations picked and
\* picked again, the rules edited, saved and imported.  Nothing is merged.
\* ------------------------------------------------------------------------
\* the rules of an earlier session on SourceDir, each with the target folder
\* and the switch the user left it with
StoredRules ==
    LET scanned == generateMappingsFromFiles(scanAllXmlFiles(SourceDir), <<>>)
    IN {[i \in 1..Len(scanned) |-> [scanned[i] EXCEPT !.targetFolder = c[i][1], !.enabled = c[i][2]]]
        : c \in [1..Len(scanned) -> TargetFolderChoices \X BOOLEAN]}

StoredConfigs == {<<>>} \cup {<<m>> : m \in StoredRules}

InitRules == fx = FxOff /\ \E stored \in StoredConfigs : Mounted(stored)

NextRules ==
    \/ selectProjectDir
    \/ selectProjectDirAborted
    \/ \E h \in SourceHandles : selectSourceDir(h)
    \/ selectSourceDirAborted
    \/ handleRefresh
    \/ \E i \in 1..Len(mappings) : toggleMapping(i)
    \/ setReplaceExisting
    \/ openSettings
    \/ \E i \in 1..Len(tempMappings), f \in TargetFolderChoices : updateTempMapping(i, f)
    \/ \E i \in 1..Len(tempMappings) : toggleTempMapping(i)
    \/ \E i \in 1..Len(tempMappings) : resetTempMapping(i)
    \/ resetAllTempMappings
    \/ saveMappings
    \/ closeMappingDialog
    \/ \E c \in ConfigDocuments : handleImportFile(c)

SpecRules == InitRules /\ [][NextRules]_vars

\* ------------------------------------------------------------------------
\* One file through the pipeline: a res directory with values-fr/strings.xml
\* (or none) and a source folder with fr_strings.xml are scanned, previewed,
\* merged, scanned again, previewed again and merged again.
\* ------------------------------------------------------------------------
targetListing(content) == <<[name |-> FolderFr, content |-> content]>>
sourceListing(content) == <<[name |-> SrcFileFr, content |-> content]>>

\* the content executeMerge computes from what handleMerge hands it; a
\* mapping that is switched off leaves nothing to write
mergedContent(content, sf, m, tr, re, comment) ==
    LET srcs == mergeSources(sf, m, tr, re)
    IN IF Len(srcs) = 0 THEN content ELSE mergeContent(srcs[1], tr, comment)

InitText ==
    /\ UiInit
    /\ \E t \in Targets, s \in Sources, re \in BOOLEAN, c \in Comments :
          fx = [pc |-> "start", target |-> t, source |-> s, replaceExisting |-> re, comment |-> c,
                sourceFiles |-> <<>>, mappings |-> <<>>, targetResources |-> <<>>,
                preview |-> <<>>, content |-> <<>>, written |-> <<>>]

\* selectProjectDir and selectSourceDir, and the preview that follows
TextScan ==
    /\ fx.pc = "start"
    /\ LET files == scanAllXmlFiles(sourceListing(fx.source))
           maps == generateMappingsFromFiles(files, <<>>)
           tr == scanStringsFromDirectory(targetListing(fx.target))
       IN fx' = [fx EXCEPT !.pc = "ready", !.sourceFiles = files, !.mappings = maps,
                           !.targetResources = tr,
                           !.preview = generateMergePreviewWithDetails(
                                           applyMappingToSources(files, maps), tr, fx.replaceExisting)]
    /\ UNCHANGED uiVars

\* handleMerge and executeMerge
TextMerge ==
    /\ fx.pc = "ready"
    /\ LET content == mergedContent(fx.target, fx.sourceFiles, fx.mappings, fx.targetResources,
                                    fx.replaceExisting, fx.comment)
       IN fx' = [fx EXCEPT !.pc = "merged", !.content = content, !.written = writeStringsXml(content)]
    /\ UNCHANGED uiVars

\* handleImportConfirm: the target scanned again, and the preview that follows
TextRescan ==
    /\ fx.pc = "merged"
    /\ LET tr == scanStringsFromDirectory(targetListing(fx.written))
       IN fx' = [fx EXCEPT !.pc = "rescanned", !.targetResources = tr,
                           !.preview = generateMergePreviewWithDetails(
                                           applyMappingToSources(fx.sourceFiles, fx.mappings),
                                           tr, fx.replaceExisting)]
    /\ UNCHANGED uiVars

NextText ==
    \/ TextScan
    \/ TextMerge
    \/ TextRescan

SpecText == InitText /\ [][NextText]_vars

\* ------------------------------------------------------------------------
\* The locale guessed from the name of a translation file
\* ------------------------------------------------------------------------
\* the first segments and the second segments of the names
FirstSegments == {"ar", "zh", "en", "EN", "pt", "de"}
SecondSegments == {"CN", "br", "Hans", "12", "b"}
NameSuffixes == {<<"_", "strings", ".xml">>, <<".xml">>, <<>>}

\* strings.xml and the names without a segment, [strings_]first[_second]
\* with a suffix
NameShapes ==
    [prefix : {FALSE}, first : {"", "strings"}, sep : {"_"}, second : {""}, suffix : NameSuffixes]
    \cup [prefix : BOOLEAN, first : FirstSegments, sep : {"_", "-"}, second : SecondSegments,
          suffix : NameSuffixes]
    \cup [prefix : BOOLEAN, first : FirstSegments, sep : {"_"}, second : {""}, suffix : NameSuffixes]

nameOf(shape) ==
    (IF shape.prefix THEN <<"strings", "_">> ELSE <<>>)
    \o (IF shape.first # "" THEN <<shape.first>> ELSE <<>>)
    \o (IF shape.second # "" THEN <<shape.sep, shape.second>> ELSE <<>>)
    \o shape.suffix

InitLocale ==
    /\ UiInit
    /\ \E shape \in NameShapes :
          fx = [pc |-> "name", shape |-> shape, fileName |-> nameOf(shape), guess |-> <<>>]

\* scanAllXmlFiles asking for the suggestion of one file name
GuessLocale ==
    /\ fx.pc = "name"
    /\ fx' = [fx EXCEPT !.pc = "guessed", !.guess = <<guessLocaleFromFileName(fx.fileName)>>]
    /\ UNCHANGED uiVars

NextLocale == GuessLocale

SpecLocale == InitLocale /\ [][NextLocale]_vars

\* ------------------------------------------------------------------------
\* Properties
\* ------------------------------------------------------------------------
\* the atom at place i of the line is inside a comment
inComment(line, i) ==
    \E j \in 1..(i - 1) : line[j] = COPEN /\ \A m \in j..i : line[m] # CCLOSE

\* the places of the line where a <string> element starts outside a comment
liveTags(line) == {i \in 1..Len(line) : line[i] \in StringOpenTags /\ ~inComment(line, i)}

\* the keys of the <string> elements that start on the line
liveKeys(line) == {TagName(line[i]) : i \in liveTags(line)}

\* the line has the start of a <string> element
holdsString(line) == liveKeys(line) # {}

\* every <string> line of the old text is at the same place in the new text
keepsStringLines(old, new) ==
    LET ol == split(old)
        nl == split(new)
    IN \A i \in 1..Len(ol) : holdsString(ol[i]) => i <= Len(nl) /\ nl[i] = ol[i]

\* C1: with replaceExisting false, a write of a merge leaves every <string>
\* line that the strings.xml of the written folder already has where it is
\* and as it is, also for a mapping whose targetFolder was edited.
C1_SkipSemantics ==
    [][\A p \in 1..Len(merges) :
          (mergeWrite(p) /\ ~merges[p].replaceExisting)
              => \A f \in TargetFolderChoices : keepsStringLines(disk[f], disk'[f])]_vars

\* C5: at most one call of executeMerge is in flight at any time.
C5_MergesSerialized == Len(merges) <= 1

\* C6: when executeMerge returns, the write of every one of its locales has
\* been attempted, whether or not an earlier write failed.
C6_FailureIsolation ==
    \A i \in 1..Len(lastResult) : lastResult[i].attempted = lastResult[i].total

\* C8: when handleMerge filters existing keys out, the target it filters a source against is the target
\* executeMerge writes it into, the one whose folderName is the mapping's
\* targetFolder, which is also the one the preview compares it with.
C8_PairedByFolder ==
    [][(handleMerge /\ ~replaceExisting) =>
          \A i \in 1..Len(applyMappingToSources(sourceFiles, mappings)) :
             LET source == applyMappingToSources(sourceFiles, mappings)[i]
             IN /\ filterTarget(source, targetResources) = writeTarget(source, targetResources)
                /\ filterTarget(source, targetResources) = getByFolder(targetResources, source.folderName)]_vars

\* the source resource the pipeline hands to executeMerge
textSource ==
    mergeSources(fx.sourceFiles, fx.mappings, fx.targetResources, fx.replaceExisting)[1]

\* the pipeline's target was scanned and has raw content
textTargetFound == writeTarget(textSource, fx.targetResources) # <<>>

\* the preview wants something added or replaced
previewNonEmpty(p) == \E i \in 1..Len(p) : p[i].addCount > 0 \/ p[i].overwriteCount > 0

\* C2: after a non-empty merge and the rescan of the target, the preview of
\* the same sources counts no add and no update for any locale.
C2_Idempotent ==
    [][(TextRescan /\ previewNonEmpty(fx.preview)) => ~previewNonEmpty(fx'.preview)]_vars

RECURSIVE lineKeys(_, _, _)
\* for every line the keys of the <string> elements it holds a part of;
\* open is <<k>> while the element of k is left open by the lines before
lineKeys(lines, i, open) ==
    IF i > Len(lines) THEN <<>>
    ELSE LET line == lines[i]
             tags == liveTags(line)
             lastTag == CHOOSE t \in tags : \A u \in tags : u <= t
             leftOpen == IF tags # {}
                         THEN IF \E m \in (lastTag + 1)..Len(line) : line[m] = SCLOSE
                              THEN <<>> ELSE <<TagName(line[lastTag])>>
                         ELSE IF open # <<>> /\ ~includes(line, SCLOSE) THEN open ELSE <<>>
         IN <<liveKeys(line) \cup Range(open)>> \o lineKeys(lines, i + 1, leftOpen)

\* the lines of the text that are not all of merged keys: lines of other
\* keys, comments, tags and the rest
untouchedLines(content, merged) ==
    LET lines == split(content)
        ks == lineKeys(lines, 1, <<>>)
        RECURSIVE pick(_)
        pick(i) == IF i > Len(lines) THEN <<>>
                   ELSE (IF ks[i] = {} \/ ks[i] \ merged # {} THEN <<lines[i]>> ELSE <<>>) \o pick(i + 1)
    IN pick(1)

RECURSIVE isSubsequence(_, _)
isSubsequence(a, b) ==
    IF Len(a) = 0 THEN TRUE
    ELSE IF Len(b) = 0 THEN FALSE
    ELSE IF Head(a) = Head(b) THEN isSubsequence(Tail(a), Tail(b))
    ELSE isSubsequence(a, Tail(b))

\* C3: every line of the target that holds a <string> element of a key the
\* merge does not write, and every comment, tag or other line, is in the
\* output of mergeIntoExistingXml as it was and in the same order.
C3_UntouchedLinesKept ==
    (fx.pc = "merged" /\ textTargetFound)
        => isSubsequence(untouchedLines(fx.target, mapKeys(textSource.entries)), split(fx.content))

\* C4: the new line of an updated key is not at the place of its old line,
\* and the old line is no longer in the file.
C4_Relocation ==
    (fx.pc = "merged" /\ textTargetFound)
        => \A u \in 1..Len(fx.preview[1].updatedItems) :
              LET k == fx.preview[1].updatedItems[u].key
                  old == split(fx.target)
                  new == split(fx.content)
              IN \A i \in 1..Len(old) :
                    k \in liveKeys(old[i])
                        => /\ ~(i <= Len(new) /\ k \in liveKeys(new[i]))
                           /\ \A j \in 1..Len(new) : new[j] # old[i]

\* the text the preview shows: its lines without the update-old ones
previewText(detail) ==
    LET shown == SelectSeq(detail.diffLines, LAMBDA l : l.type # "update-old")
    IN normalizeLineEndings(join([i \in 1..Len(shown) |-> shown[i].content]))

\* C7: for a target with raw content and no import comment, the lines of the
\* preview without the update-old ones are the text the merge writes.
C7_PreviewIsWrite ==
    (fx.pc = "merged" /\ textTargetFound /\ fx.comment = <<>>)
        => previewText(fx.preview[1]) = fx.written

\* an item of the key is in the list
hasItem(items, k) == \E i \in 1..Len(items) : items[i].key = k

\* C9: with an existing target, a source key is add iff the target lacks it,
\* update iff the target has another value for it and replaceExisting is
\* true, else unchanged with the target's value; every target key the source
\* does not have is unchanged too.
C9_Classification ==
    (fx.pc \in {"ready", "rescanned"} /\ fx.targetResources # <<>>)
        => LET d == fx.preview[1]
               src == fx.sourceFiles[1].entries
               tgt == fx.targetResources[1].entries
           IN /\ \A s \in 1..Len(src) :
                    LET k == src[s].key
                        differs == mapHas(tgt, k) /\ mapGet(tgt, k) # src[s].value
                    IN /\ hasItem(d.addedItems, k) <=> ~mapHas(tgt, k)
                       /\ hasItem(d.updatedItems, k) <=> (differs /\ fx.replaceExisting)
                       /\ hasItem(d.unchangedItems, k) <=> (mapHas(tgt, k) /\ ~(differs /\ fx.replaceExisting))
                       /\ \A i \in 1..Len(d.unchangedItems) :
                             d.unchangedItems[i].key = k => d.unchangedItems[i].newValue = mapGet(tgt, k)
                       /\ \A i \in 1..Len(d.updatedItems) :
                             d.updatedItems[i].key = k
                                 => /\ d.updatedItems[i].newValue = src[s].value
                                    /\ d.updatedItems[i].oldValue = mapGet(tgt, k)
              /\ \A t \in 1..Len(tgt) :
                    ~mapHas(src, tgt[t].key)
                        => \E i \in 1..Len(d.unchangedItems) :
                              /\ d.unchangedItems[i].key = tgt[t].key
                              /\ d.unchangedItems[i].newValue = tgt[t].value
              /\ d.addCount = Len(d.addedItems) /\ d.overwriteCount = Len(d.updatedItems)

\* a preview with an add, an update and an unchanged target key at once
C9_Witness ==
    /\ fx.pc = "ready" /\ fx.targetResources # <<>> /\ fx.replaceExisting
    /\ Len(fx.preview[1].addedItems) = 1
    /\ Len(fx.preview[1].updatedItems) = 1
    /\ Len(fx.preview[1].unchangedItems) > 0

\* C10: with nothing to write, mergeIntoExistingXml gives a well-formed
\* target back as it was, line endings aside, with or without a comment.
C10_NoOpRoundTrip ==
    (fx.pc = "merged" /\ textTargetFound /\ Len(textSource.entries) = 0)
        => fx.written = normalizeLineEndings(fx.target)

\* the line generateStringsXmlContent is to write for the i-th entry of the
\* source: its raw line when there is one, else a freshly escaped element
expectedEntryLine(source, i) ==
    FourSpaces \o (IF source.entries[i].key \in DOMAIN source.rawLines
                   THEN source.rawLines[source.entries[i].key]
                   ELSE stringElement(source.entries[i].key, escapeXmlValue(source.entries[i].value)))

\* declaration, <resources>, the comment if one was given and there is an
\* entry to put under it, the entry lines, </resources>, the trailing newline
expectedNewFile(source, comment) ==
    join(<<<<DECL>>, <<ROPEN>>>>
         \o (IF comment # <<>> /\ Len(source.entries) > 0
             THEN <<FourSpaces \o <<COPEN, SP>> \o comment \o <<SP, CCLOSE>>>> ELSE <<>>)
         \o [i \in 1..Len(source.entries) |-> expectedEntryLine(source, i)]
         \o <<<<RCLOSE>>, <<>>>>)

\* the pipeline merged into a folder that had no strings.xml
textNewFile ==
    /\ fx.pc = "merged" /\ fx.target = NoTarget
    /\ Len(mergeSources(fx.sourceFiles, fx.mappings, fx.targetResources, fx.replaceExisting)) > 0

\* C11: merging into a target folder without strings.xml writes the XML
\* declaration, <resources>, the optional comment line, then for every source
\* entry in source order exactly one line holding the <string> element of
\* that entry (the raw line of the source when there is one, a freshly
\* escaped one otherwise), then </resources> and a trailing newline.
C11_NewFileSynthesis ==
    textNewFile =>
        /\ fx.content = expectedNewFile(textSource, fx.comment)
        /\ \A i \in 1..Len(textSource.entries) :
              liveKeys(expectedEntryLine(textSource, i)) = {textSource.entries[i].key}

\* the positions of the mappings m that are rules of the file fileName
rulesOfFile(m, fileName) == {i \in 1..Len(m) : m[i].sourceFileName = fileName}

\* new is old reconciled with the scan: one rule per scanned file, no rule
\* of another file, a rule there was kept but for its entry count, a rule
\* there was not made from the suggestion and switched on
reconciled(old, files, new) ==
    /\ Len(new) = Len(files)
    /\ \A i \in 1..Len(new) : \E j \in 1..Len(files) : files[j].fileName = new[i].sourceFileName
    /\ \A j \in 1..Len(files) :
          /\ Cardinality(rulesOfFile(new, files[j].fileName)) = 1
          /\ \A i \in rulesOfFile(new, files[j].fileName) :
                IF rulesOfFile(old, files[j].fileName) # {}
                THEN \E k \in rulesOfFile(old, files[j].fileName) :
                        new[i] = [old[k] EXCEPT !.entryCount = Len(files[j].entries)]
                ELSE new[i] = [sourceFileName |-> files[j].fileName,
                               targetFolder |-> files[j].suggestedFolder,
                               locale |-> files[j].suggestedLocale,
                               enabled |-> TRUE,
                               entryCount |-> Len(files[j].entries)]

\* C12: a scan of the source folder (a pick or a refresh) keeps the mapping
\* there was for a scanned file name with its targetFolder, locale and enabled
\* as they were and only entryCount refreshed, makes a mapping from the
\* suggestion with enabled = true for a file name that had none, drops the
\* mappings of file names not scanned, and leaves one mapping per scanned file.
C12_Reconciliation ==
    [][((\E h \in SourceHandles : selectSourceDir(h)) \/ handleRefresh)
           => reconciled(mappings, sourceFiles', mappings')]_vars

\* the stored rules sent fr_strings.xml to values-de, switched off, and the
\* folder that holds fr_strings.xml alone was picked: the rule is kept against
\* the suggestion, its count refreshed, the rule of de_strings.xml dropped
C12_Witness ==
    /\ edits = 0 /\ sourceDirHandle = OtherSourceHandle
    /\ Len(sourceFiles) = 1 /\ sourceFiles[1].suggestedFolder = FolderFr
    /\ mappings = <<[sourceFileName |-> SrcFileFr, targetFolder |-> FolderDe, locale |-> <<"fr">>,
                     enabled |-> FALSE, entryCount |-> 1]>>

\* C13: once a source folder has been scanned, every enabled mapping is the
\* mapping of a file of the current scan, whatever rescans, refreshes,
\* toggles, draft saves and imports of a configuration followed.
C13_NoDanglingMappings ==
    sourceDirHandle # None =>
        \A i \in 1..Len(mappings) :
            mappings[i].enabled =>
                \E j \in 1..Len(sourceFiles) : sourceFiles[j].fileName = mappings[i].sourceFileName

\* C14: whenever a file is in the scan of the source folder, the target
\* folder and the switch the user last gave to the rule of that file name are
\* those of its mapping, however many other folders were scanned in between.
C14_CustomizationsKept ==
    \A j \in 1..Len(sourceFiles) :
        sourceFiles[j].fileName \in DOMAIN customRules =>
            /\ getMapping(mappings, sourceFiles[j].fileName) # <<>>
            /\ ruleOf(getMapping(mappings, sourceFiles[j].fileName)[1])
                   = customRules[sourceFiles[j].fileName]

\* one of the editing operations of the Mapping Editor
draftEdit ==
    \/ \E i \in 1..Len(tempMappings), f \in TargetFolderChoices : updateTempMapping(i, f)
    \/ \E i \in 1..Len(tempMappings) : toggleTempMapping(i)
    \/ \E i \in 1..Len(tempMappings) : resetTempMapping(i)
    \/ resetAllTempMappings

\* C15: while the Mapping Editor is open, toggling, editing a target folder,
\* resetting one rule or all rules changes tempMappings only, and nothing but
\* Save changes mappings, the preview or the stored configuration; closing
\* the editor leaves them alone too, and opening it starts the draft from the
\* mappings there are.
C15_DraftMechanism ==
    [][/\ draftEdit
            => UNCHANGED <<mappings, previewDetails, savedConfig, sourceFiles, targetResources,
                           replaceExisting, status, error, disk, showMappingDialog>>
       /\ (showMappingDialog /\ ~saveMappings) => UNCHANGED <<mappings, previewDetails, savedConfig>>
       /\ (~showMappingDialog /\ showMappingDialog') => tempMappings' = mappings /\ mappings' = mappings]_vars

\* the editor is open on a draft that is not the mappings
C15_Witness == showMappingDialog /\ tempMappings # mappings /\ savedConfig = <<mappings>>

\* C16: when the user dismisses the directory picker of selectProjectDir or
\* of selectSourceDir, none of sourceFiles, mappings, targetDirHandle,
\* targetResources, previewDetails, status and error differs from before.
C16_AbortedPick ==
    [][(selectProjectDirAborted \/ selectSourceDirAborted)
           => UNCHANGED <<sourceFiles, mappings, targetDirHandle, targetResources,
                          previewDetails, status, error>>]_vars

\* a picker was dismissed, and both folders are loaded and previewed
C16_Witness ==
    /\ aborts > 0
    /\ targetDirHandle # None /\ Len(sourceFiles) > 0 /\ Len(mappings) > 0
    /\ Len(previewDetails) > 0 /\ status = "ready" /\ error = None

\* the message of an invalid configuration file
InvalidConfigError == "invalid configuration file"

\* C17: importing a document that is not valid JSON or has no mappings array
\* sets the error to the invalid-configuration message and leaves mappings,
\* the preview and the stored configuration as they were.
C17_InvalidConfigReported ==
    [][(\E c \in InvalidDocuments : handleImportFile(c))
           => /\ error' = InvalidConfigError
              /\ UNCHANGED <<mappings, previewDetails, savedConfig>>]_vars

\* a step that starts a merge or computes the preview from targetResources
usesTargetResources ==
    \/ handleMerge
    \/ \E i \in 1..Len(mappings) : toggleMapping(i)
    \/ setReplaceExisting
    \/ saveMappings
    \/ selectSourceDir(SourceHandle)

\* C18: once the target has been scanned and an executeMerge has returned,
\* with success or with a failure, and none is running, a step that starts a
\* merge or computes the preview works on the targetResources of a scan made
\* after that merge, which are those scanStringsFromDirectory reads from the
\* directory as it is.
C18_RescanAfterMerge ==
    [][(usesTargetResources /\ targetResources # <<>> /\ lastResult # <<>> /\ Len(merges) = 0)
           => targetResources' = scanStringsFromDirectory(dirListing(disk'))]_vars

\* the errors a scan of the project ends in
ScanErrors == {"no res directory", "read failed"}

\* C19: while the error of a project scan stands, that is until a scan has
\* succeeded, the import dialog is not opened and no merge is started.
C19_ScanErrorBlocksMerge ==
    [][(openImportDialog \/ handleMerge) => error \notin ScanErrors]_vars

\* the name of the table row lang[_region]_strings.xml, or strings.xml
rowName(segments) == segments \o <<".xml">>

\* locale and folder as the table gives them
rowAnswer(locale) ==
    IF locale = <<"default">> THEN [locale |-> locale, folder |-> <<"values">>]
    ELSE [locale |-> locale, folder |-> <<"values", "-">> \o locale]

\* the segments in lower case, the segments of two letters in upper case
lowerCased == [s \in FirstSegments |-> IF s = "EN" THEN "en" ELSE s]
twoLetters == [s \in {"CN", "br"} |-> IF s = "br" THEN "BR" ELSE s]

\* what the rules, taken in order, give for a name of the shape
ruleAnswer(shape) ==
    IF shape.first \in {"", "strings"} THEN rowAnswer(<<"default">>)
    ELSE IF lowerCased[shape.first] = "en" /\ shape.second = "" THEN rowAnswer(<<"default">>)
    ELSE IF shape.second \in DOMAIN twoLetters
    THEN rowAnswer(<<lowerCased[shape.first], "-", "r" \o twoLetters[shape.second]>>)
    ELSE rowAnswer(<<lowerCased[shape.first]>>)

\* C20: guessLocaleFromFileName gives (ar, values-ar) for ar_strings.xml,
\* (zh-rCN, values-zh-rCN) for zh_CN_strings.xml, (default, values) for
\* en_strings.xml and for strings.xml, (pt-rBR, values-pt-rBR) for
\* pt_br_strings.xml, and for every name the answer of the rules in order:
\* no segment or 'strings' gives default, the single segment 'en' (in either
\* letter case) gives default, a second segment of two letters gives
\* lang-rREGION with the region in upper case, else the first segment in
\* lower case.
C20_LocaleTable ==
    fx.pc = "guessed" =>
        /\ fx.fileName = rowName(<<"ar", "_", "strings">>) => fx.guess[1] = rowAnswer(<<"ar">>)
        /\ fx.fileName = rowName(<<"zh", "_", "CN", "_", "strings">>)
              => fx.guess[1] = rowAnswer(<<"zh", "-", "rCN">>)
        /\ fx.fileName = rowName(<<"en", "_", "strings">>) => fx.guess[1] = rowAnswer(<<"default">>)
        /\ fx.fileName = rowName(<<"strings">>) => fx.guess[1] = rowAnswer(<<"default">>)
        /\ fx.fileName = rowName(<<"pt", "_", "br", "_", "strings">>)
              => fx.guess[1] = rowAnswer(<<"pt", "-", "rBR">>)
        /\ fx.guess[1] = ruleAnswer(fx.shape)

\* pt_br_strings.xml has been resolved to pt-rBR
C20_Witness ==
    /\ fx.pc = "guessed"
    /\ fx.fileName = <<"pt", "_", "br", "_", "strings", ".xml">>
    /\ fx.guess[1].locale = <<"pt", "-", "rBR">>

\* what the XML pass reads from one line put between <resources> and </resources>
decodedLine(line) == parseStringsXml(<<ROPEN, NL>> \o line \o <<NL, RCLOSE>>)

\* the raw line of k is the one-line <string> element of k with the value v
rawLineAgrees(line, k, v) ==
    /\ liveKeys(line) = {k}
    /\ decodedLine(line).success
    /\ mapHas(decodedLine(line).entries, k)
    /\ mapGet(decodedLine(line).entries, k) = v

\* C21: in every scanned source file each key of rawLines is a key of
\* entries, and its raw line is the one-line <string> element of that key
\* whose decoded value is entries[k]: no text inside a comment has taken the
\* place of the line of a real element.  (An element over several lines has
\* an entry and no raw line.)
C21_RawLinesAgree ==
    fx.pc \in {"ready", "merged", "rescanned"} =>
        \A i \in 1..Len(fx.sourceFiles) :
            \A k \in DOMAIN fx.sourceFiles[i].rawLines :
                /\ mapHas(fx.sourceFiles[i].entries, k)
                /\ rawLineAgrees(fx.sourceFiles[i].rawLines[k], k, mapGet(fx.sourceFiles[i].entries, k))

\* the diff lines made for the entries that are added or that replace a line
newLineIndexes(diffLines) ==
    {i \in 1..Len(diffLines) : diffLines[i].type \in {"add", "update-new"} /\ diffLines[i].stringKey # <<>>}

keyIndex(entries, k) == CHOOSE i \in 1..Len(entries) : entries[i].key = k

\* the new lines are one block in the order of the source, and the line after
\* the block holds </resources>
appendedInOrder(diffLines, entries) ==
    \/ newLineIndexes(diffLines) = {}
    \/ \E lo, hi \in 1..Len(diffLines) :
          /\ newLineIndexes(diffLines) = lo..hi
          /\ hi < Len(diffLines)
          /\ includes(diffLines[hi + 1].content, RCLOSE)
          /\ \A i, j \in lo..hi :
                i < j => keyIndex(entries, diffLines[i].stringKey[1]) < keyIndex(entries, diffLines[j].stringKey[1])

lastClosing(lines) == CHOOSE c \in 1..Len(lines) :
    includes(lines[c], RCLOSE) /\ \A j \in (c + 1)..Len(lines) : ~includes(lines[j], RCLOSE)

\* the line of the written text that opens the element of k before the line
\* that holds </resources> (0 if there is none)
lineOfKey(lines, k) ==
    IF \E i \in 1..(lastClosing(lines) - 1) : k \in liveKeys(lines[i])
    THEN CHOOSE i \in 1..(lastClosing(lines) - 1) :
            k \in liveKeys(lines[i]) /\ \A j \in (i + 1)..(lastClosing(lines) - 1) : k \notin liveKeys(lines[j])
    ELSE 0

\* the elements of the entries written stand in the order of the source, and
\* no other element stands between the first of them and </resources>
writtenInOrder(content, entries) ==
    /\ \E c \in 1..Len(split(content)) : includes(split(content)[c], RCLOSE)
    /\ \A j \in 1..Len(entries) : lineOfKey(split(content), entries[j].key) > 0
    /\ \A i, j \in 1..Len(entries) :
          i < j => lineOfKey(split(content), entries[i].key) < lineOfKey(split(content), entries[j].key)
    /\ \A n \in 1..(lastClosing(split(content)) - 1) :
          (Len(entries) > 0 /\ n >= lineOfKey(split(content), entries[1].key)) =>
              liveKeys(split(content)[n]) \subseteq {entries[j].key : j \in 1..Len(entries)}

\* C22: the lines made for the updated and the added entries stand in the
\* key order of the source file, one after the other and right before the
\* line that holds </resources>, in the diffLines of the preview and in the
\* text mergeIntoExistingXml writes.
C22_AppendOrder ==
    /\ (fx.pc = "ready" /\ Len(fx.preview) > 0 /\ textTargetFound) =>
          appendedInOrder(fx.preview[1].diffLines, fx.sourceFiles[1].entries)
    /\ (fx.pc = "merged" /\ textTargetFound
          /\ Len(mergeSources(fx.sourceFiles, fx.mappings, fx.targetResources, fx.replaceExisting)) > 0) =>
          writtenInOrder(fx.content,
              mergeSources(fx.sourceFiles, fx.mappings, fx.targetResources, fx.replaceExisting)[1].entries)

\* the target file is there and parseStringsXml rejects it
targetRejected == fx.target # <<>> /\ ~parseStringsXml(fx.target).success

\* the preview of a new file: every entry of the source added, nothing else
allAdded(detail, entries) ==
    /\ detail.isNewFile
    /\ detail.updatedItems = <<>> /\ detail.unchangedItems = <<>>
    /\ Len(detail.addedItems) = Len(entries)
    /\ \A i \in 1..Len(entries) :
          /\ detail.addedItems[i].key = entries[i].key
          /\ detail.addedItems[i].type = "add"
          /\ detail.addedItems[i].newValue = entries[i].value
    /\ detail.addCount = Len(entries) /\ detail.overwriteCount = 0

hasImportComment(content, comment) == includesSeq(content, <<COPEN, SP>> \o comment \o <<SP, CCLOSE>>)

\* the preview on the screen counts nothing to add and nothing to replace
\* for the folder
previewShowsNothing(folderName) ==
    \E i \in 1..Len(previewDetails) :
        /\ previewDetails[i].folderName = folderName
        /\ previewDetails[i].addCount = 0 /\ previewDetails[i].overwriteCount = 0

\* the write of executeMerge that is next for the p-th merge under way puts
\* the comment line into a file that was without it
writesComment(p) ==
    /\ merges[p].comment # <<>>
    /\ ~hasImportComment(disk[merges[p].sourceResources[merges[p].next].folderName], merges[p].comment)
    /\ hasImportComment(disk'[merges[p].sourceResources[merges[p].next].folderName], merges[p].comment)

\* C24: in a merge with a comment, the file of a folder for which the
\* preview counts no add and no update gets no comment line.
C24_CommentOnlyWithEntries ==
    [][\A p \in 1..Len(merges) :
          (mergeWrite(p) /\ previewShowsNothing(merges[p].sourceResources[merges[p].next].folderName))
              => ~writesComment(p)]_vars

\* ------------------------------------------------------------------------
\* The component with the folder of translations whose files share no key,
\* the merges one after the other and every write succeeding.
\* ------------------------------------------------------------------------
NextShared ==
    \/ selectProjectDir
    \/ selectSourceDir(SharedSourceHandle)
    \/ \E i \in 1..Len(mappings) : toggleMapping(i)
    \/ setReplaceExisting
    \/ openSettings
    \/ \E i \in 1..Len(tempMappings), f \in TargetFolderChoices : updateTempMapping(i, f)
    \/ saveMappings
    \/ closeMappingDialog
    \/ openImportDialog
    \/ handleMerge
    \/ \E p \in 1..Len(merges) : mergeWrite(p)
    \/ handleImportConfirm

SpecShared == Init /\ [][NextShared]_vars

\* the text parses and holds the key with the value
holdsEntry(content, k, v) ==
    /\ parseStringsXml(content).success
    /\ mapHas(parseStringsXml(content).entries, k)
    /\ mapGet(parseStringsXml(content).entries, k) = v

\* every entry of every source of the merge is in the file of its folder
allEntriesWritten(sourceResources, d) ==
    \A i \in 1..Len(sourceResources) :
        \A j \in 1..Len(sourceResources[i].entries) :
            holdsEntry(d[sourceResources[i].folderName],
                       sourceResources[i].entries[j].key, sourceResources[i].entries[j].value)

\* C25: when executeMerge in replace mode has made its last write and
\* reports success, the strings.xml of the target folder of every enabled
\* source holds every key of that source with the value of the source, also
\* when two enabled mappings name the same target folder.
C25_NoSourceEntryLost ==
    [][\A p \in 1..Len(merges) :
          (mergeWrite(p) /\ merges[p].replaceExisting /\ merges[p].next = Len(merges[p].sourceResources))
              => allEntriesWritten(merges[p].sourceResources, disk')]_vars

\* every key of old is a key of the parsed text, with the value of written
\* when written has the key and with its old value when not
keysKept(old, written, content) ==
    /\ parseStringsXml(content).success
    /\ \A i \in 1..Len(old) :
          /\ mapHas(parseStringsXml(content).entries, old[i].key)
          /\ mapGet(parseStringsXml(content).entries, old[i].key) =
                (IF mapHas(written, old[i].key) THEN mapGet(written, old[i].key) ELSE old[i].value)

\* C26: every key the target had before the merge is a key of the parsed
\* text mergeIntoExistingXml returns, with the value of the source when the
\* key is among the entries written and with its old value when it is not.
C26_NoTargetKeyLost ==
    (fx.pc = "merged" /\ textTargetFound) =>
        keysKept(writeTarget(textSource, fx.targetResources)[1].entries, textSource.entries, fx.content)

\* the places of the text where a <string> element of k opens outside of
\* any comment, however its name is quoted and wherever it stands in the tag
elementsOf(content, k) ==
    {i \in 1..Len(content) :
        content[i] \in StringOpenTags /\ TagName(content[i]) = k /\ ~inComment(content, i)}

uniqueKeys(content) == \A k \in Keys : Cardinality(elementsOf(content, k)) <= 1

\* C27: when no key has more than one <string> element in the target, no
\* key has more than one in the text mergeIntoExistingXml returns, with the
\* name in double or single quotes, first in the tag or after another
\* attribute.
C27_KeysStayUnique ==
    (fx.pc = "merged" /\ textTargetFound /\ uniqueKeys(fx.target)) => uniqueKeys(fx.content)

itemKeys(items) == {items[i].key : i \in 1..Len(items)}

\* the keys of the target the preview pairs the folder with
targetKeysOf(folderName, resources) ==
    IF getByFolder(resources, folderName) = <<>> THEN {}
    ELSE mapKeys(getByFolder(resources, folderName)[1].entries)

\* the three lists hold every key of source and target once
isPartition(detail, sourceKeys, targetKeys) ==
    /\ Cardinality(itemKeys(detail.addedItems)) = Len(detail.addedItems)
    /\ Cardinality(itemKeys(detail.updatedItems)) = Len(detail.updatedItems)
    /\ Cardinality(itemKeys(detail.unchangedItems)) = Len(detail.unchangedItems)
    /\ itemKeys(detail.addedItems) \cap itemKeys(detail.updatedItems) = {}
    /\ itemKeys(detail.addedItems) \cap itemKeys(detail.unchangedItems) = {}
    /\ itemKeys(detail.updatedItems) \cap itemKeys(detail.unchangedItems) = {}
    /\ itemKeys(detail.addedItems) \cup itemKeys(detail.updatedItems) \cup itemKeys(detail.unchangedItems)
          = sourceKeys \cup targetKeys

countsAgree(detail, sourceKeys, replace) ==
    /\ detail.addCount = Len(detail.addedItems)
    /\ detail.overwriteCount = Len(detail.updatedItems)
    /\ detail.sourceCount = Cardinality(sourceKeys)
    /\ ~replace => detail.updatedItems = <<>>
    /\ detail.isNewFile =>
          detail.addCount = detail.sourceCount /\ detail.overwriteCount = 0 /\ detail.targetCount = 0

linesOfType(diffLines, type, k) ==
    {i \in 1..Len(diffLines) : diffLines[i].type = type /\ diffLines[i].stringKey = <<k>>}

\* one update-old and one update-new line per updated key, one add line per
\* added key
diffLinesAgree(detail) ==
    /\ \A k \in itemKeys(detail.updatedItems) :
          /\ Cardinality(linesOfType(detail.diffLines, "update-old", k)) = 1
          /\ Cardinality(linesOfType(detail.diffLines, "update-new", k)) = 1
    /\ \A k \in itemKeys(detail.addedItems) :
          Cardinality(linesOfType(detail.diffLines, "add", k)) = 1

\* C28: in every MergePreviewDetail the keys of addedItems, updatedItems and
\* unchangedItems are disjoint and together the keys of source and target,
\* the counts are the lengths of the lists, updatedItems is empty in skip
\* mode, a new file has addCount = sourceCount and nothing else, and the
\* diff has one update-old and one update-new line per updated key and one
\* add line per added key.
C28_PreviewPartition ==
    fx.pc \in {"ready", "merged", "rescanned"} =>
        \A i \in 1..Len(fx.preview) :
            /\ isPartition(fx.preview[i], mapKeys(fx.sourceFiles[i].entries),
                           targetKeysOf(fx.preview[i].folderName, fx.targetResources))
            /\ countsAgree(fx.preview[i], mapKeys(fx.sourceFiles[i].entries), fx.replaceExisting)
            /\ diffLinesAgree(fx.preview[i])

\* ------------------------------------------------------------------------
\* The resolver asked about the names of SpecLocale and about the names
\* whose base begins with a separator: (_|-)second with a suffix, with or
\* without strings_ in front
\* ------------------------------------------------------------------------
LeadingSeparatorShapes ==
    [prefix : BOOLEAN, first : {""}, sep : {"_", "-"}, second : SecondSegments, suffix : NameSuffixes]

InitAnyName ==
    /\ UiInit
    /\ \E shape \in NameShapes \cup LeadingSeparatorShapes :
          fx = [pc |-> "name", shape |-> shape, fileName |-> nameOf(shape), guess |-> <<>>]

SpecAnyName == InitAnyName /\ [][NextLocale]_vars

\* folder is values for the locale default and values-<locale> with a locale
\* of one character at least for any other
folderOfLocale(guess) ==
    /\ guess.folder = ValuesFolder <=> guess.locale = DefaultLocale
    /\ guess.locale # DefaultLocale => (guess.locale # <<>> /\ guess.folder = FolderOf(guess.locale))

\* C29: for every file name the locale read back from the suggested folder
\* is the suggested locale, and the folder is values exactly for the locale
\* default and values-<locale> with a non-empty locale otherwise, also for a
\* name whose base begins with a separator.
C29_ResolversAgree ==
    fx.pc = "guessed" =>
        /\ extractLocaleFromFolderName(fx.guess[1].folder) = fx.guess[1].locale
        /\ folderOfLocale(fx.guess[1])

localeMatchesFolder(m) == m.locale = extractLocaleFromFolderName(m.targetFolder)

\* C30: in every state each mapping, in use or in the draft of the Mapping
\* Editor, has the locale that extractLocaleFromFolderName reads from its
\* target folder.
C30_LocaleMatchesFolder ==
    /\ \A i \in 1..Len(mappings) : localeMatchesFolder(mappings[i])
    /\ \A i \in 1..Len(tempMappings) : localeMatchesFolder(tempMappings[i])


====
